---------------------------- MODULE Spec2Model ----------------------------
(***************************************************************************)
(* A model of the Conversation component (src/components/Conversation.tsx, *)
(* the version with translation and speech synthesis, lines 1-503): the    *)
(* React state of the component, the asynchronous handlers split at their  *)
(* await points, the audio element and the highlight lookup.               *)
(*                                                                         *)
(* JavaScript values are tagged records: Null, Undefined, Num(n), Str(s),  *)
(* objects.  Text is a TLA+ string (a sequence of characters), read with   *)
(* Len and SubSeq.  Times are integers: the code only compares them.       *)
(***************************************************************************)
EXTENDS Integers, Sequences, FiniteSets, TLC

(***************************************************************************)
(* Bounds of the model.                                                    *)
(***************************************************************************)
MaxTime == 1
MaxPending == 1

(***************************************************************************)
(* JavaScript values.                                                      *)
(***************************************************************************)
Null == [t |-> "null"]
Undefined == [t |-> "undefined"]
Num(n) == [t |-> "number", n |-> n]
Str(s) == [t |-> "string", s |-> s]

\* ToBoolean: what `!x` and `if (x)` read.
Truthy(v) ==
    CASE v.t = "null" -> FALSE
      [] v.t = "undefined" -> FALSE
      [] v.t = "number" -> v.n # 0
      [] v.t = "string" -> v.s # ""
      [] OTHER -> TRUE

\* x.transcript of a value that is neither null nor undefined.
TranscriptOf(v) ==
    IF v.t = "object" /\ "transcript" \in DOMAIN v THEN Str(v.transcript) ELSE Undefined

\* x.word_segments is there to be mapped over.
HasSegments(v) == v.t = "object" /\ "word_segments" \in DOMAIN v

(***************************************************************************)
(* Strings.                                                                *)
(***************************************************************************)
CharAt(s, i) == SubSeq(s, i, i)

\* \s of the regular expression, and what String.prototype.trim removes.
IsSpace(c) == c \in {" ", "\n", "\t", "\r"}

\* `.` of the regular expression matches anything but a line terminator.
IsLineTerminator(c) == c \in {"\n", "\r"}

Min(S) == CHOOSE x \in S : \A y \in S : x <= y
Max(S) == CHOOSE x \in S : \A y \in S : y <= x

\* String.prototype.trim: from the first to the last character that is no
\* white space.
Trim(s) ==
    LET n == Len(s)
        first == CHOOSE i \in 1..(n + 1) :
                    /\ i = n + 1 \/ ~IsSpace(CharAt(s, i))
                    /\ \A j \in 1..(i - 1) : IsSpace(CharAt(s, j))
        last == CHOOSE i \in 0..n :
                    /\ i = 0 \/ ~IsSpace(CharAt(s, i))
                    /\ \A j \in (i + 1)..n : IsSpace(CharAt(s, j))
    IN  SubSeq(s, first, last)

StartsWith(s, p) == Len(s) >= Len(p) /\ SubSeq(s, 1, Len(p)) = p

\* String.prototype.toLowerCase, on the Latin letters.
LowerChar(c) ==
    LET upper == "ABCDEFGHIJKLMNOPQRSTUVWXYZ"
        lower == "abcdefghijklmnopqrstuvwxyz"
        at == {i \in 1..26 : CharAt(upper, i) = c}
    IN  IF at = {} THEN c ELSE CharAt(lower, CHOOSE i \in at : TRUE)

RECURSIVE ToLowerCase(_)
ToLowerCase(s) ==
    IF s = "" THEN "" ELSE LowerChar(CharAt(s, 1)) \o ToLowerCase(SubSeq(s, 2, Len(s)))

RECURSIVE Repeat(_, _)
Repeat(s, n) ==
    IF n = 0 THEN ""
    ELSE IF n % 2 = 0 THEN LET half == Repeat(s, n \div 2) IN half \o half
    ELSE s \o Repeat(s, n - 1)


(***************************************************************************)
(* Slide chunks: transcript.match(/.{1,150}(\s|$)/g) || [].                *)
(***************************************************************************)
ChunkBudget == 150

\* The number of characters `.{1,budget}` can take from position p: the run
\* of characters that are no line terminators, at most budget of them.
DotRun(s, p, budget) ==
    LET last == IF Len(s) < p + budget - 1 THEN Len(s) ELSE p + budget - 1
        stops == {i \in p..last : IsLineTerminator(CharAt(s, i))}
    IN  IF stops = {} THEN last - p + 1 ELSE Min(stops) - p

\* The match of the lazy quantifier .{1,budget}?: the shortest k.
MatchLenShortest(s, p, budget) ==
    LET run == DotRun(s, p, budget)
        ok(k) == IF p + k <= Len(s) THEN IsSpace(CharAt(s, p + k)) ELSE TRUE
        ks == {k \in 1..run : ok(k)}
    IN  IF ks = {}
        THEN 0
        ELSE IF p + Min(ks) <= Len(s) THEN Min(ks) + 1 ELSE Min(ks)

\* The length of the match of .{1,budget}(\s|$) that starts at p, 0 when
\* there is none.  The quantifier is greedy and backtracks: the longest k
\* after which a whitespace character (which the match then includes) or the
\* end of the text follows.
MatchLen(s, p, budget) ==
    LET run == DotRun(s, p, budget)
        ok(k) == IF p + k <= Len(s) THEN IsSpace(CharAt(s, p + k)) ELSE TRUE
        ks == {k \in 1..run : ok(k)}
    IN  IF ks = {}
        THEN 0
        ELSE IF p + Max(ks) <= Len(s) THEN Max(ks) + 1 ELSE Max(ks)

\* The matches of the global regular expression, left to right: after a match
\* the search goes on behind it; where nothing matches, one character on.
RECURSIVE MatchAll(_, _, _)
MatchAll(s, p, budget) ==
    IF p > Len(s)
    THEN <<>>
    ELSE LET n == MatchLen(s, p, budget)
         IN  IF n = 0
             THEN MatchAll(s, p + 1, budget)
             ELSE <<SubSeq(s, p, p + n - 1)>> \o MatchAll(s, p + n, budget)

\* The whole text as one chunk when nothing matches.
ChunksOrWholeText(text) ==
    IF MatchAll(text, 1, ChunkBudget) = <<>>
    THEN <<text>>
    ELSE MatchAll(text, 1, ChunkBudget)

Chunks(text) == MatchAll(text, 1, ChunkBudget)

(***************************************************************************)
(* The highlight: renderTranscript's isActive and the effect's findIndex.  *)
(***************************************************************************)
\* a >= b and a < b of JavaScript on a number a and a number or undefined b:
\* a comparison with undefined is false.
Geq(a, b) == b.t = "number" /\ a >= b.n
Less(a, b) == b.t = "number" /\ a < b.n

\* The closed interval: a word still active at the instant it ends.
IsActiveClosed(segment, time) ==
    /\ Geq(time, segment.start_time)
    /\ segment.end_time.t = "number" /\ time <= segment.end_time.n

IsActive(segment, time) ==
    Geq(time, segment.start_time) /\ Less(time, segment.end_time)

\* The indices (from 0) of the spans rendered as highlighted.
Highlighted(data, time) ==
    IF ~Truthy(data)
    THEN {}
    ELSE {i \in 0..(Len(data.word_segments) - 1) : IsActive(data.word_segments[i + 1], time)}

\* findLastIndex in place of findIndex: the highest index.
FindLastIndex(segments, time) ==
    LET hits == {i \in 0..(Len(segments) - 1) : IsActive(segments[i + 1], time)}
    IN  IF hits = {} THEN -1 ELSE Max(hits)

\* word_segments.findIndex(isActive): the lowest index, -1 when there is none.
FindIndex(segments, time) ==
    LET hits == {i \in 0..(Len(segments) - 1) : IsActive(segments[i + 1], time)}
    IN  IF hits = {} THEN -1 ELSE Min(hits)


(***************************************************************************)
(* Inputs: the files a user can drop, what the AI service can answer.      *)
(***************************************************************************)
File(name, type) == [t |-> "file", name |-> name, type |-> type]
AudioFile == File("song.mp3", "audio/mpeg")
TextFile == File("notes.txt", "text/plain")
Files == {AudioFile, TextFile}

Segment(word, start, end) ==
    [word |-> word, start_time |-> Num(start), end_time |-> Num(end)]
Transcript(text, segments) ==
    [t |-> "object", transcript |-> text, word_segments |-> segments]

EmptyTranscript == Transcript("", <<>>)
LongTranscript ==
    Transcript(Repeat("a", 100) \o " " \o Repeat("b", 100) \o " " \o Repeat("c", 60),
               <<Segment(Repeat("a", 100), 0, 1), Segment(Repeat("b", 100), 1, 2),
                 Segment(Repeat("c", 60), 2, 3)>>)
Transcripts == {EmptyTranscript, LongTranscript}

\* JSON values of another shape than a transcript.
NoSegmentsObject == [t |-> "object", transcript |-> "hello"]
JsonValues == Transcripts \cup {Null, Num(5), Str("hello"), NoSegmentsObject}

Digit(n) == SubSeq("0123456789", n + 1, n + 1)

RECURSIVE SegmentsText(_)
SegmentsText(segments) ==
    IF segments = <<>>
    THEN ""
    ELSE "{\"word\":\"" \o Head(segments).word
         \o "\",\"start_time\":" \o Digit(Head(segments).start_time.n)
         \o ",\"end_time\":" \o Digit(Head(segments).end_time.n) \o "}"
         \o (IF Len(segments) > 1 THEN "," ELSE "") \o SegmentsText(Tail(segments))

\* The JSON text of a value (JSON.stringify).
JsonText(v) ==
    CASE v.t = "null" -> "null"
      [] v.t = "number" -> Digit(v.n)
      [] v.t = "string" -> "\"" \o v.s \o "\""
      [] v.t = "object" /\ "word_segments" \in DOMAIN v ->
            "{\"transcript\":\"" \o v.transcript \o "\",\"word_segments\":["
            \o SegmentsText(v.word_segments) \o "]}"
      [] v.t = "object" /\ "transcript" \in DOMAIN v ->
            "{\"transcript\":\"" \o v.transcript \o "\"}"
      [] OTHER -> "{}"

\* JSON.parse on the texts the model's service sends: the value whose JSON
\* text it is, or a SyntaxError.
JsonParse(s) ==
    IF \E v \in JsonValues : JsonText(v) = s
    THEN [ok |-> TRUE, value |-> CHOOSE v \in JsonValues : JsonText(v) = s]
    ELSE [ok |-> FALSE]

\* What a request can settle with: a response, or a thrown value -- an Error
\* with a message, or something that is no Error.
Error(message) == [t |-> "error", message |-> message]
Thrown == {Error("Network error"), Str("boom")}
Response(text) == [ok |-> TRUE, text |-> text]
Failure(thrown) == [ok |-> FALSE, thrown |-> thrown]
Failures == {Failure(e) : e \in Thrown}

\* response.text of a transcription: missing, no JSON, or the JSON text of a
\* value (here and there with white space around it).
TranscriptionResponses ==
    {Response(Undefined), Response(Str("Sorry, I cannot."))}
    \cup {Response(Str(JsonText(v))) : v \in JsonValues \ {LongTranscript}}
    \cup {Response(Str(" " \o JsonText(LongTranscript) \o "\n"))}
    \cup Failures

ChordResponses ==
    {Response(Undefined), Response(Str("")), Response(Str(" None\n")),
     Response(Str("C G Am\n"))}
    \cup Failures


(***************************************************************************)
(* State.  The first fourteen variables are the component's useState       *)
(* cells, under their names.                                               *)
(***************************************************************************)
VARIABLES
    status, error, file, audioUrl, transcriptData, chords, currentTime,
    exportProgress, totalSlides, persianTranscript, isTranslating,
    isGeneratingAudio, generatedEnglishAudioUrl, generatedPersianAudioUrl,
    audioPos,    \* currentTime of the mounted <audio> element
    up,          \* the handleFile call in flight
    ex,          \* the handleExportToPowerPoint call in flight
    pending,     \* the handleTranslate / handleGenerateAudio calls in flight
    effects      \* what the last step did: its setStatus calls, the requests
                 \* it sent, the other asynchronous steps it started, the
                 \* files it saved

cells == <<status, error, file, audioUrl, transcriptData, chords, currentTime,
           exportProgress, totalSlides, persianTranscript, isTranslating,
           isGeneratingAudio, generatedEnglishAudioUrl, generatedPersianAudioUrl>>
vars == <<cells, audioPos, up, ex, pending, effects>>

Statuses == {"idle", "reading", "transcribing", "detecting_chords", "exporting",
             "done", "error"}

\* URL.createObjectURL(blob)
ObjectUrl(blob) == [t |-> "url", blob |-> blob]

\* A request to the AI service: its kind and, for a slide, the chunk's index.
Request(kind, chunk) == [kind |-> kind, chunk |-> chunk]

NoEffects == [status |-> <<>>, requests |-> <<>>, started |-> <<>>, saved |-> <<>>]
Effects(statusSets, requests, started) ==
    [status |-> statusSets, requests |-> requests, started |-> started,
     saved |-> <<>>]
Saved(statusSets, saved) ==
    [status |-> statusSets, requests |-> <<>>, started |-> <<>>, saved |-> <<saved>>]

UpIdle == [pc |-> "idle", file |-> Null, data |-> Null]
ExIdle == [pc |-> "idle", file |-> Null, data |-> Null, chunks |-> <<>>,
           index |-> 0, slides |-> <<>>]

Init ==
    /\ status = "idle"
    /\ error = Null
    /\ file = Null
    /\ audioUrl = Null
    /\ transcriptData = Null
    /\ chords = Null
    /\ currentTime = 0
    /\ exportProgress = 0
    /\ totalSlides = 0
    /\ persianTranscript = Null
    /\ isTranslating = FALSE
    /\ isGeneratingAudio = "false"
    /\ generatedEnglishAudioUrl = Null
    /\ generatedPersianAudioUrl = Null
    /\ audioPos = 0
    /\ up = UpIdle
    /\ ex = ExIdle
    /\ pending = <<>>
    /\ effects = NoEffects

(***************************************************************************)
(* renderContent: which of the three views is on screen.                   *)
(***************************************************************************)
UploadViewOf(st, f) == st = "idle" \/ (st = "error" /\ ~Truthy(f))
SpinnerViewOf(st, f) == ~UploadViewOf(st, f) /\ st # "done" /\ st # "error"
\* The buttons on screen beside the spinner.
MainViewBesideSpinner(st, f) == ~UploadViewOf(st, f)
MainViewOf(st, f) == ~UploadViewOf(st, f) /\ ~SpinnerViewOf(st, f)

UploadView == UploadViewOf(status, file)
SpinnerView == SpinnerViewOf(status, file)
MainView == MainViewOf(status, file)

\* renderTranscript (and the highlight effect) read word_segments of whatever
\* transcriptData holds: on a truthy value without it the render throws, and
\* React unmounts the component.
RenderThrows == MainView /\ Truthy(transcriptData) /\ ~HasSegments(transcriptData)
Mounted == ~RenderThrows

\* The <audio> element lives in the main view only: it is created, at
\* position 0, whenever the main view comes on screen.
AudioElement ==
    audioPos' = IF MainView /\ MainViewOf(status', file') THEN audioPos ELSE 0


(***************************************************************************)
(* handleFile, with transcribeAudio and detectChords.                      *)
(***************************************************************************)
\* A type check that lets every file through.
IsAnyFile(f) == f.t = "file"

IsAudioFile(f) == StartsWith(f.type, "audio/")

\* err instanceof Error ? err.message : fallback
ErrorMessage(thrown, fallback) ==
    IF thrown.t = "error" THEN thrown.message ELSE fallback

KeyMissing == Error("API_KEY not found.")
ParseFailed == Error("Failed to parse the structured response from the model.")

TranscribeError(thrown) ==
    Str("Failed to transcribe the audio. "
        \o ErrorMessage(thrown, "An unknown error occurred during transcription."))

\* A handleFile that goes on to 'done' on the null transcribeAudio returns.
TranscribeCatchThenDone(thrown, statusSets) ==
    /\ error' = TranscribeError(thrown)
    /\ status' = "done"
    /\ up' = UpIdle
    /\ effects' = Effects(statusSets \o <<"error", "done">>, <<>>, <<>>)

\* The catch of transcribeAudio; handleFile then ends on the null it returns.
TranscribeCatch(thrown, statusSets) ==
    /\ error' = TranscribeError(thrown)
    /\ status' = "error"
    /\ up' = UpIdle
    /\ effects' = Effects(statusSets \o <<"error">>, <<>>, <<>>)

\* A drop or a choice of selectedFile in the upload zone, up to the first
\* await: the type check, resetState, and transcribeAudio up to the reading
\* of the file.  apiKey: process.env.API_KEY is set when the handler reads it
\* (the host can set and remove it; every handler reads it anew).
handleFile(selectedFile, apiKey) ==
    /\ Mounted /\ UploadView
    /\ IF ~IsAudioFile(selectedFile)
       THEN /\ error' = Str("Invalid file type. Please upload an audio file.")
            /\ status' = "error"
            /\ effects' = Effects(<<"error">>, <<>>, <<>>)
            /\ UNCHANGED <<file, audioUrl, transcriptData, chords, currentTime,
                           exportProgress, totalSlides, persianTranscript,
                           isTranslating, isGeneratingAudio,
                           generatedEnglishAudioUrl, generatedPersianAudioUrl, up>>
       ELSE /\ file' = selectedFile
            /\ audioUrl' = ObjectUrl(selectedFile)
            /\ transcriptData' = Null
            /\ chords' = Null
            /\ currentTime' = 0
            /\ exportProgress' = 0
            /\ totalSlides' = 0
            /\ persianTranscript' = Null
            /\ isTranslating' = FALSE
            /\ isGeneratingAudio' = "false"
            /\ generatedEnglishAudioUrl' = Null
            /\ generatedPersianAudioUrl' = Null
            /\ IF ~apiKey
               THEN TranscribeCatch(KeyMissing, <<"idle", "reading">>)
               ELSE /\ error' = Null
                    /\ status' = "transcribing"
                    /\ up' = [pc |-> "read", file |-> selectedFile, data |-> Null]
                    /\ effects' = Effects(<<"idle", "reading", "transcribing">>,
                                          <<>>, <<"readFile">>)
    /\ UNCHANGED <<ex, pending>>
    /\ AudioElement

\* fileToGenerativePart settles: the FileReader has read the file and the
\* request goes out; or it has failed, reader.result is null, onloadend
\* throws on it and the promise is never resolved.
transcribeRead(readOk) ==
    /\ Mounted /\ up.pc = "read"
    /\ IF readOk
       THEN /\ up' = [up EXCEPT !.pc = "request"]
            /\ effects' = Effects(<<>>, <<Request("transcribe", 0)>>, <<>>)
       ELSE /\ up' = [up EXCEPT !.pc = "hung"]
            /\ effects' = NoEffects
    /\ UNCHANGED <<cells, audioPos, ex, pending>>

\* detectChords up to its first await, then (when it ends at once) the
\* setStatus('done') of handleFile.
DetectChordsStart(statusSets, apiKey) ==
    IF ~apiKey
    THEN /\ status' = "done"
         /\ up' = UpIdle
         /\ effects' = Effects(statusSets \o <<"done">>, <<>>, <<>>)
    ELSE /\ status' = "detecting_chords"
         /\ up' = [up EXCEPT !.pc = "chordRead"]
         /\ effects' = Effects(statusSets \o <<"detecting_chords">>, <<>>, <<"readFile">>)

\* The transcription request settles with r.
transcribeSettle(r, apiKey) ==
    /\ Mounted /\ up.pc = "request"
    /\ IF ~r.ok
       THEN /\ TranscribeCatch(r.thrown, <<>>)
            /\ UNCHANGED transcriptData
       ELSE LET parsed == IF r.text.t = "string"
                          THEN JsonParse(Trim(r.text.s))
                          ELSE [ok |-> FALSE]
            IN  IF ~parsed.ok
                THEN /\ TranscribeCatch(ParseFailed, <<>>)
                     /\ UNCHANGED transcriptData
                ELSE /\ transcriptData' = parsed.value
                     /\ error' = error
                     /\ IF Truthy(parsed.value)
                        THEN DetectChordsStart(<<>>, apiKey)
                        ELSE /\ status' = status
                             /\ up' = UpIdle
                             /\ effects' = NoEffects
    /\ UNCHANGED <<file, audioUrl, chords, currentTime, exportProgress, totalSlides,
                   persianTranscript, isTranslating, isGeneratingAudio,
                   generatedEnglishAudioUrl, generatedPersianAudioUrl,
                   ex, pending>>
    /\ AudioElement

chordsRead(readOk) ==
    /\ Mounted /\ up.pc = "chordRead"
    /\ IF readOk
       THEN /\ up' = [up EXCEPT !.pc = "chordRequest"]
            /\ effects' = Effects(<<>>, <<Request("chords", 0)>>, <<>>)
       ELSE /\ up' = [up EXCEPT !.pc = "hung"]
            /\ effects' = NoEffects
    /\ UNCHANGED <<cells, audioPos, ex, pending>>

\* The chord request settles with r; whatever it is, handleFile goes on to
\* setStatus('done').
chordsSettle(r) ==
    /\ Mounted /\ up.pc = "chordRequest"
    /\ chords' = IF r.ok /\ r.text.t = "string"
                    /\ ToLowerCase(Trim(r.text.s)) # "none" /\ Len(Trim(r.text.s)) > 0
                 THEN Str(Trim(r.text.s))
                 ELSE chords
    /\ status' = "done"
    /\ up' = UpIdle
    /\ effects' = Effects(<<"done">>, <<>>, <<>>)
    /\ UNCHANGED <<error, file, audioUrl, transcriptData, currentTime, exportProgress,
                   totalSlides, persianTranscript, isTranslating, isGeneratingAudio,
                   generatedEnglishAudioUrl, generatedPersianAudioUrl,
                   ex, pending>>
    /\ AudioElement


(***************************************************************************)
(* resetState (the New File button), the audio element's timeupdate, and   *)
(* handleDownloadTranscript.                                               *)
(***************************************************************************)
\* A reset that leaves the cells of translation and speech as they are.
resetStateWithoutTranslation ==
    /\ Mounted /\ MainView
    /\ status' = "idle"
    /\ error' = Null
    /\ file' = Null
    /\ audioUrl' = Null
    /\ transcriptData' = Null
    /\ chords' = Null
    /\ currentTime' = 0
    /\ exportProgress' = 0
    /\ totalSlides' = 0
    /\ effects' = Effects(<<"idle">>, <<>>, <<>>)
    /\ UNCHANGED <<persianTranscript, isTranslating, isGeneratingAudio,
                   generatedEnglishAudioUrl, generatedPersianAudioUrl,
                   up, ex, pending>>
    /\ AudioElement

resetState ==
    /\ Mounted /\ MainView
    /\ status' = "idle"
    /\ error' = Null
    /\ file' = Null
    /\ audioUrl' = Null
    /\ transcriptData' = Null
    /\ chords' = Null
    /\ currentTime' = 0
    /\ exportProgress' = 0
    /\ totalSlides' = 0
    /\ persianTranscript' = Null
    /\ isTranslating' = FALSE
    /\ isGeneratingAudio' = "false"
    /\ generatedEnglishAudioUrl' = Null
    /\ generatedPersianAudioUrl' = Null
    /\ effects' = Effects(<<"idle">>, <<>>, <<>>)
    /\ UNCHANGED <<up, ex, pending>>
    /\ AudioElement

\* The boxes getBoundingClientRect gives, in lines: the transcript container
\* shows ContainerLines lines, and the span of a word is one line high: on
\* the line above the container, on its first or last line, or on the line
\* below it (where the layout and the user's scrolling have put it).
ContainerLines == 2
containerRect == [top |-> 0, bottom |-> ContainerLines]
ElementRects ==
    {[top |-> top, bottom |-> top + 1] :
        top \in {-1, 0, ContainerLines - 1, ContainerLines}}

\* A scroll effect that does not look at the boxes.
ScrollsToEveryActiveWord(time, elementRect) ==
    /\ time # currentTime
    /\ Truthy(transcriptData)
    /\ FindIndex(transcriptData.word_segments, time) # -1

\* The scroll effect, run after the render of a changed currentTime, finds
\* an active word and measures the box of its span.
MeasuresBox(time) ==
    /\ time # currentTime
    /\ Truthy(transcriptData)
    /\ FindIndex(transcriptData.word_segments, time) # -1

\* Whether the scroll effect calls scrollIntoView on the span of the active
\* word.
ScrollsIntoView(time, elementRect) ==
    /\ MeasuresBox(time)
    /\ \/ elementRect.top < containerRect.top
       \/ elementRect.bottom > containerRect.bottom

\* The player is at `time` (playback went on, or the user sought) and fires
\* timeupdate: setCurrentTime(audio.currentTime), the render, and the scroll
\* effect.  No box is read when the effect measures none: the step is then
\* written with the box on the first line.
timeUpdate(time, elementRect) ==
    /\ Mounted /\ MainView
    /\ MeasuresBox(time) \/ elementRect.top = containerRect.top
    /\ audioPos' = time
    /\ currentTime' = time
    /\ effects' = IF ScrollsIntoView(time, elementRect)
                  THEN Effects(<<>>, <<>>, <<"scrollIntoView">>)
                  ELSE NoEffects
    /\ UNCHANGED <<status, error, file, audioUrl, transcriptData, chords,
                   exportProgress, totalSlides, persianTranscript, isTranslating,
                   isGeneratingAudio, generatedEnglishAudioUrl,
                   generatedPersianAudioUrl, up, ex, pending>>

\* name.split('.')[0]
RECURSIVE BeforeFirstDot(_)
BeforeFirstDot(name) ==
    IF name = "" \/ CharAt(name, 1) = "."
    THEN ""
    ELSE CharAt(name, 1) \o BeforeFirstDot(SubSeq(name, 2, Len(name)))

\* `${file?.name.split('.')[0]}`
FileStem(f) == IF Truthy(f) THEN BeforeFirstDot(f.name) ELSE "undefined"

\* A download that empties the transcript it has saved.
handleDownloadTranscriptAndEmpty ==
    /\ Mounted /\ MainView
    /\ effects' = IF ~Truthy(transcriptData)
                  THEN NoEffects
                  ELSE Saved(<<>>, [name |-> FileStem(file) \o "_transcript.txt",
                                    content |-> transcriptData.transcript])
    /\ transcriptData' = IF HasSegments(transcriptData)
                         THEN EmptyTranscript ELSE transcriptData
    /\ UNCHANGED <<status, error, file, audioUrl, chords, currentTime,
                   exportProgress, totalSlides, persianTranscript, isTranslating,
                   isGeneratingAudio, generatedEnglishAudioUrl,
                   generatedPersianAudioUrl, audioPos, up, ex, pending>>

handleDownloadTranscript ==
    /\ Mounted /\ MainView
    /\ effects' = IF ~Truthy(transcriptData)
                  THEN NoEffects
                  ELSE Saved(<<>>, [name |-> FileStem(file) \o "_transcript.txt",
                                    content |-> transcriptData.transcript])
    /\ UNCHANGED <<cells, audioPos, up, ex, pending>>

(***************************************************************************)
(* handleExportToPowerPoint.  A slide of the deck holds what the loop puts *)
(* on it: the image (with the dark rectangle over it), the trimmed text,   *)
(* and on the first slide the audio (with the footer line).  No call puts  *)
(* notes on a slide: `notes` is null on every slide.                       *)
(***************************************************************************)
NewSlide == [image |-> FALSE, text |-> Null, audio |-> FALSE, notes |-> Null]

PromptResponses == {Response(Str("a prompt"))} \cup Failures
\* generatedImages of an image response: with an image, or empty.
ImageResponses ==
    {[ok |-> TRUE, images |-> <<"/9j/4AAQ">>], [ok |-> TRUE, images |-> <<>>]}
    \cup Failures

\* A catch of the export that is not followed by the finally.
ExportCatchWithoutFinally ==
    /\ error' = Str("Failed to generate PowerPoint. Please try again.")
    /\ status' = "error"
    /\ UNCHANGED <<exportProgress, totalSlides>>
    /\ ex' = ExIdle

\* The catch of handleExportToPowerPoint, then its finally.
ExportCatch ==
    /\ error' = Str("Failed to generate PowerPoint. Please try again.")
    /\ status' = "error"
    /\ exportProgress' = 0
    /\ totalSlides' = 0
    /\ ex' = ExIdle

\* The Export button, up to the await of import('pptxgenjs').
handleExportToPowerPoint ==
    /\ Mounted /\ MainView
    /\ IF ~Truthy(transcriptData) \/ ~Truthy(file) \/ ~Truthy(audioUrl)
       THEN /\ effects' = NoEffects
            /\ UNCHANGED <<status, exportProgress, error, ex>>
       ELSE /\ status' = "exporting"
            /\ exportProgress' = 0
            /\ error' = Null
            /\ ex' = [ExIdle EXCEPT !.pc = "import", !.file = file,
                                    !.data = transcriptData]
            /\ effects' = Effects(<<"exporting">>, <<>>, <<"import">>)
    /\ UNCHANGED <<file, audioUrl, transcriptData, chords, currentTime, totalSlides,
                   persianTranscript, isTranslating, isGeneratingAudio,
                   generatedEnglishAudioUrl, generatedPersianAudioUrl,
                   up, pending>>
    /\ AudioElement

\* The import settles; then the key check, the chunks, and the first slide.
exportImport(importOk, apiKey) ==
    /\ Mounted /\ ex.pc = "import"
    /\ IF ~importOk \/ ~apiKey
       THEN /\ ExportCatch
            /\ effects' = Effects(<<"error">>, <<>>, <<>>)
       ELSE \E chunks \in {Chunks(ex.data.transcript)} :
                /\ totalSlides' = Len(chunks)
                /\ IF Len(chunks) = 0
                   THEN /\ ex' = [ex EXCEPT !.pc = "write"]
                        /\ effects' = Effects(<<>>, <<>>, <<"writeFile">>)
                   ELSE /\ ex' = [ex EXCEPT !.pc = "prompt", !.chunks = chunks,
                                            !.index = 0, !.slides = <<NewSlide>>]
                        /\ effects' = Effects(<<>>, <<Request("prompt", 0)>>, <<>>)
                /\ UNCHANGED <<status, error, exportProgress>>
    /\ UNCHANGED <<file, audioUrl, transcriptData, chords, currentTime,
                   persianTranscript, isTranslating, isGeneratingAudio,
                   generatedEnglishAudioUrl, generatedPersianAudioUrl,
                   up, pending>>
    /\ AudioElement

\* The prompt request of the current chunk settles.
exportPrompt(r) ==
    /\ Mounted /\ ex.pc = "prompt"
    /\ IF ~r.ok
       THEN /\ ExportCatch
            /\ effects' = Effects(<<"error">>, <<>>, <<>>)
       ELSE /\ ex' = [ex EXCEPT !.pc = "image"]
            /\ effects' = Effects(<<>>, <<Request("image", ex.index)>>, <<>>)
            /\ UNCHANGED <<status, error, exportProgress, totalSlides>>
    /\ UNCHANGED <<file, audioUrl, transcriptData, chords, currentTime,
                   persianTranscript, isTranslating, isGeneratingAudio,
                   generatedEnglishAudioUrl, generatedPersianAudioUrl,
                   up, pending>>
    /\ AudioElement

\* The slide of the current chunk, finished.
\* A slide that gets the audio with its picture and text.
FinishedSlideWithAudio(chunk) ==
    [image |-> TRUE, text |-> Str(Trim(chunk)), audio |-> TRUE, notes |-> Null]
FinishedSlide(chunk) ==
    [image |-> TRUE, text |-> Str(Trim(chunk)), audio |-> FALSE, notes |-> Null]

\* A progress that shows the index of the chunk.
ProgressIsIndex(index) == index

\* setExportProgress(index + 1)
ProgressAfter(index) == index + 1

\* The image request of the current chunk settles: the slide is finished, and
\* the loop goes on to the next chunk, or past the last to the audio.
exportImage(r) ==
    /\ Mounted /\ ex.pc = "image"
    /\ IF ~r.ok \/ (r.ok /\ r.images = <<>>)
       THEN /\ ExportCatch
            /\ effects' = Effects(<<"error">>, <<>>, <<>>)
       ELSE LET index == ex.index
                done == [ex.slides EXCEPT
                            ![index + 1] = FinishedSlide(ex.chunks[index + 1])]
            IN  /\ exportProgress' = ProgressAfter(index)
                /\ IF index + 1 < Len(ex.chunks)
                   THEN /\ ex' = [ex EXCEPT !.pc = "prompt", !.index = index + 1,
                                            !.slides = Append(done, NewSlide)]
                        /\ effects' = Effects(<<>>, <<Request("prompt", index + 1)>>,
                                              <<>>)
                   ELSE /\ ex' = [ex EXCEPT !.pc = "readAudio", !.slides = done]
                        /\ effects' = Effects(<<>>, <<>>, <<"readFile">>)
                /\ UNCHANGED <<status, error, totalSlides>>
    /\ UNCHANGED <<file, audioUrl, transcriptData, chords, currentTime,
                   persianTranscript, isTranslating, isGeneratingAudio,
                   generatedEnglishAudioUrl, generatedPersianAudioUrl,
                   up, pending>>
    /\ AudioElement

\* fileToGenerativePart(file) settles: the audio goes on the first slide and
\* writeFile starts; or the read failed and the promise is never resolved.
exportRead(readOk) ==
    /\ Mounted /\ ex.pc = "readAudio"
    /\ IF readOk
       THEN /\ ex' = [ex EXCEPT !.pc = "write", !.slides[1].audio = TRUE]
            /\ effects' = Effects(<<>>, <<>>, <<"writeFile">>)
       ELSE /\ ex' = [ex EXCEPT !.pc = "hung"]
            /\ effects' = NoEffects
    /\ UNCHANGED <<cells, audioPos, up, pending>>

\* pres.writeFile settles.
exportWrite(writeOk) ==
    /\ Mounted /\ ex.pc = "write"
    /\ IF writeOk
       THEN /\ status' = "done"
            /\ exportProgress' = 0
            /\ totalSlides' = 0
            /\ ex' = ExIdle
            /\ effects' = Saved(<<"done">>,
                                [name |-> BeforeFirstDot(ex.file.name) \o ".ppsx",
                                 slides |-> ex.slides])
            /\ UNCHANGED error
       ELSE /\ ExportCatch
            /\ effects' = Effects(<<"error">>, <<>>, <<>>)
    /\ UNCHANGED <<file, audioUrl, transcriptData, chords, currentTime,
                   persianTranscript, isTranslating, isGeneratingAudio,
                   generatedEnglishAudioUrl, generatedPersianAudioUrl,
                   up, pending>>
    /\ AudioElement


(***************************************************************************)
(* handleTranslate and handleGenerateAudio.  A call in flight is an entry  *)
(* of `pending`, with the text its closure captured.                       *)
(***************************************************************************)
TranslateResponses ==
    {Response(Str("salam donya")), Response(Undefined)}
    \cup Failures
\* candidates[0].content.parts[0].inlineData.data of a speech response: the
\* audio, or nothing.
SpeechResponses ==
    {[ok |-> TRUE, data |-> Str("AAABAA==")], [ok |-> TRUE, data |-> Undefined]}
    \cup Failures

TranslateError(thrown) ==
    Str("Failed to translate. "
        \o ErrorMessage(thrown, "An unknown error occurred during translation."))

SpeechError(thrown) ==
    Str("Failed to generate audio. "
        \o ErrorMessage(thrown, "An unknown error occurred during audio generation."))

NoAudioData == Error("No audio data received from the API.")

\* disabled={isTranslating || isGeneratingAudio !== false}
Busy == isTranslating \/ isGeneratingAudio # "false"

Remove(seq, i) == SubSeq(seq, 1, i - 1) \o SubSeq(seq, i + 1, Len(seq))

\* The Translate button.  The entry of the request keeps, with the text the
\* closure captured, the translation on screen when the button was pressed
\* (`had`), which the handler clears before it sends the request.
handleTranslate(apiKey) ==
    /\ Mounted /\ MainView /\ ~Busy
    /\ IF ~Truthy(transcriptData)
       THEN /\ effects' = NoEffects
            /\ UNCHANGED <<isTranslating, error, persianTranscript, pending>>
       ELSE /\ persianTranscript' = Null
            /\ IF ~apiKey
               THEN /\ error' = TranslateError(KeyMissing)
                    /\ isTranslating' = FALSE
                    /\ effects' = NoEffects
                    /\ UNCHANGED pending
               ELSE /\ Len(pending) < MaxPending
                    /\ error' = Null
                    /\ isTranslating' = TRUE
                    /\ pending' = Append(pending,
                            [op |-> "translate", language |-> "",
                             text |-> transcriptData.transcript,
                             had |-> persianTranscript])
                    /\ effects' = Effects(<<>>, <<Request("translate", 0)>>, <<>>)
    /\ UNCHANGED <<status, file, audioUrl, transcriptData, chords, currentTime,
                   exportProgress, totalSlides, isGeneratingAudio,
                   generatedEnglishAudioUrl, generatedPersianAudioUrl,
                   audioPos, up, ex>>

\* The translation request pending[i] settles with r.
translateSettle(i, r) ==
    /\ Mounted /\ i \in 1..Len(pending) /\ pending[i].op = "translate"
    /\ IF r.ok
       THEN /\ persianTranscript' = r.text
            /\ UNCHANGED error
       ELSE /\ error' = TranslateError(r.thrown)
            /\ UNCHANGED persianTranscript
    /\ isTranslating' = FALSE
    /\ pending' = Remove(pending, i)
    /\ effects' = NoEffects
    /\ UNCHANGED <<status, file, audioUrl, transcriptData, chords, currentTime,
                   exportProgress, totalSlides, isGeneratingAudio,
                   generatedEnglishAudioUrl, generatedPersianAudioUrl,
                   audioPos, up, ex>>

\* The TTS button of `language` is on screen.
SpeechButton(language) ==
    IF language = "english"
    THEN ~Truthy(generatedEnglishAudioUrl)
    ELSE Truthy(persianTranscript) /\ ~Truthy(generatedPersianAudioUrl)

\* A text to speak that is the word 'undefined' when there is no transcript.
TextToSpeakAsString(language) ==
    IF language = "english"
    THEN (IF transcriptData.t \in {"null", "undefined"}
          THEN Str("undefined") ELSE TranscriptOf(transcriptData))
    ELSE persianTranscript

\* language === 'english' ? transcriptData?.transcript : persianTranscript
TextToSpeak(language) ==
    IF language = "english"
    THEN (IF transcriptData.t \in {"null", "undefined"}
          THEN Undefined ELSE TranscriptOf(transcriptData))
    ELSE persianTranscript

handleGenerateAudio(language, apiKey) ==
    /\ Mounted /\ MainView /\ SpeechButton(language) /\ ~Busy
    /\ IF ~Truthy(TextToSpeak(language))
       THEN /\ effects' = NoEffects
            /\ UNCHANGED <<isGeneratingAudio, error, pending>>
       ELSE IF ~apiKey
            THEN /\ error' = SpeechError(KeyMissing)
                 /\ isGeneratingAudio' = "false"
                 /\ effects' = NoEffects
                 /\ UNCHANGED pending
            ELSE /\ Len(pending) < MaxPending
                 /\ error' = Null
                 /\ isGeneratingAudio' = language
                 /\ pending' = Append(pending,
                         [op |-> "speech", language |-> language,
                          text |-> TextToSpeak(language).s])
                 /\ effects' = Effects(<<>>, <<Request("speech", 0)>>, <<>>)
    /\ UNCHANGED <<status, file, audioUrl, transcriptData, chords, currentTime,
                   exportProgress, totalSlides, persianTranscript, isTranslating,
                   generatedEnglishAudioUrl, generatedPersianAudioUrl,
                   audioPos, up, ex>>

\* atob(base64), the forgiving base64 decoding of the browser: ASCII white
\* space is removed; of a text whose length is a multiple of 4, one or two
\* '=' at the end are removed; a text of length 4k + 1, or one with a
\* character outside the alphabet, throws InvalidCharacterError; every four
\* characters give three bytes, two or three left over give one or two.
Base64Alphabet ==
    "ABCDEFGHIJKLMNOPQRSTUVWXYZabcdefghijklmnopqrstuvwxyz0123456789+/"
Base64Char(v) == CharAt(Base64Alphabet, v + 1)
IsBase64Char(c) == \E v \in 0..63 : Base64Char(v) = c
Base64Value(c) == CHOOSE v \in 0..63 : Base64Char(v) = c
IsAsciiWhitespace(c) == c \in {" ", "\t", "\n", "\f", "\r"}

RECURSIVE WithoutWhitespace(_)
WithoutWhitespace(s) ==
    IF s = "" THEN ""
    ELSE (IF IsAsciiWhitespace(CharAt(s, 1)) THEN "" ELSE CharAt(s, 1))
         \o WithoutWhitespace(SubSeq(s, 2, Len(s)))

WithoutPadding(s) ==
    IF Len(s) % 4 # 0 \/ s = "" THEN s
    ELSE IF SubSeq(s, Len(s) - 1, Len(s)) = "==" THEN SubSeq(s, 1, Len(s) - 2)
    ELSE IF CharAt(s, Len(s)) = "=" THEN SubSeq(s, 1, Len(s) - 1)
    ELSE s

Base64Digits(base64) == WithoutPadding(WithoutWhitespace(base64))

AtobThrows(base64) ==
    LET s == Base64Digits(base64)
    IN  Len(s) % 4 = 1 \/ \E q \in 1..Len(s) : ~IsBase64Char(CharAt(s, q))

\* The character codes of the binary string atob returns.
atob(base64) ==
    LET s == Base64Digits(base64)
        six(j) == Base64Value(CharAt(s, j))
    IN  [k \in 1..((Len(s) * 6) \div 8) |->
            LET bit == 8 * (k - 1)
                j == bit \div 6 + 1
            IN  CASE bit % 6 = 0 -> six(j) * 4 + six(j + 1) \div 16
                  [] bit % 6 = 2 -> (six(j) % 16) * 16 + six(j + 1) \div 4
                  [] bit % 6 = 4 -> (six(j) % 4) * 64 + six(j + 1)]

\* decodeBase64: a Uint8Array of the character codes.
decodeBase64(base64) ==
    LET binaryString == atob(base64)
    IN  [i \in 1..Len(binaryString) |-> binaryString[i] % 256]

\* new Int16Array(audioBytes.buffer): a buffer with an odd number of bytes
\* throws RangeError; else element i is read from bytes 2i - 1 and 2i in the
\* byte order of the platform, which is little-endian on the platforms
\* browsers run on.
ToInt16(u) == IF u >= 32768 THEN u - 65536 ELSE u
Int16ArrayThrows(bytes) == Len(bytes) % 2 # 0
Int16Array(bytes) ==
    [i \in 1..(Len(bytes) \div 2) |-> ToInt16(bytes[2 * i - 1] + 256 * bytes[2 * i])]

\* What DataView.setUint32, setUint16 and setInt16 store for a value.
Uint16Bytes(v, littleEndian) ==
    IF littleEndian THEN <<v % 256, (v \div 256) % 256>>
    ELSE <<(v \div 256) % 256, v % 256>>
Uint32Bytes(v, littleEndian) ==
    IF littleEndian
    THEN <<v % 256, (v \div 256) % 256, (v \div 65536) % 256, (v \div 16777216) % 256>>
    ELSE <<(v \div 16777216) % 256, (v \div 65536) % 256, (v \div 256) % 256, v % 256>>
Int16Bytes(v, littleEndian) == Uint16Bytes(v % 65536, littleEndian)

sampleRate == 24000
numChannels == 1
bytesPerSample == 2

\* A header whose RIFF size is the length of the whole file.
WavHeaderWithFileLength(dataSize) ==
    Uint32Bytes(1380533830, FALSE)
    \o Uint32Bytes(44 + dataSize, TRUE)
    \o Uint32Bytes(1463899717, FALSE)
    \o Uint32Bytes(1718449184, FALSE)
    \o Uint32Bytes(16, TRUE)
    \o Uint16Bytes(1, TRUE)
    \o Uint16Bytes(numChannels, TRUE)
    \o Uint32Bytes(sampleRate, TRUE)
    \o Uint32Bytes(sampleRate * numChannels * bytesPerSample, TRUE)
    \o Uint16Bytes(numChannels * bytesPerSample, TRUE)
    \o Uint16Bytes(bytesPerSample * 8, TRUE)
    \o Uint32Bytes(1684108385, FALSE)
    \o Uint32Bytes(dataSize, TRUE)
\* Bytes 0 to 43 of the buffer, as the thirteen view.set... calls leave them.
WavHeader(dataSize) ==
    Uint32Bytes(1380533830, FALSE)                      \* 0x52494646 "RIFF"
    \o Uint32Bytes(36 + dataSize, TRUE)
    \o Uint32Bytes(1463899717, FALSE)                   \* 0x57415645 "WAVE"
    \o Uint32Bytes(1718449184, FALSE)                   \* 0x666d7420 "fmt "
    \o Uint32Bytes(16, TRUE)
    \o Uint16Bytes(1, TRUE)
    \o Uint16Bytes(numChannels, TRUE)
    \o Uint32Bytes(sampleRate, TRUE)
    \o Uint32Bytes(sampleRate * numChannels * bytesPerSample, TRUE)
    \o Uint16Bytes(numChannels * bytesPerSample, TRUE)
    \o Uint16Bytes(bytesPerSample * 8, TRUE)
    \o Uint32Bytes(1684108385, FALSE)                   \* 0x64617461 "data"
    \o Uint32Bytes(dataSize, TRUE)

\* Samples written with the high byte first.
WavSamplesBigEndian(pcmData) ==
    [k \in 1..(Len(pcmData) * 2) |->
        Int16Bytes(pcmData[(k + 1) \div 2], FALSE)[((k - 1) % 2) + 1]]
\* Bytes 44 on: view.setInt16(44 + i * 2, pcmData[i], true) for every i.
WavSamples(pcmData) ==
    [k \in 1..(Len(pcmData) * 2) |->
        Int16Bytes(pcmData[(k + 1) \div 2], TRUE)[((k - 1) % 2) + 1]]

\* The bytes of the buffer of 44 + dataSize bytes.
WavBytes(pcmData) ==
    LET dataSize == Len(pcmData) * bytesPerSample
    IN  WavHeader(dataSize) \o WavSamples(pcmData)

\* The Blob of type audio/wav made for the request that read `text`.
Wav(text, bytes) ==
    [t |-> "wav", type |-> "audio/wav", text |-> text, bytes |-> bytes]

\* What the decoding of the payload throws, when it throws (the messages
\* are the ones of V8).
InvalidCharacterError ==
    Error("Failed to execute 'atob' on 'Window': The string to be decoded is not correctly encoded.")
Int16RangeError == Error("byte length of Int16Array should be a multiple of 2")
DecodeThrows(base64) ==
    AtobThrows(base64) \/ Int16ArrayThrows(decodeBase64(base64))
DecodeThrown(base64) ==
    IF AtobThrows(base64) THEN InvalidCharacterError ELSE Int16RangeError

\* The speech request pending[i] settles with r.
speechSettle(i, r) ==
    /\ Mounted /\ i \in 1..Len(pending) /\ pending[i].op = "speech"
    /\ IF r.ok /\ Truthy(r.data) /\ ~DecodeThrows(r.data.s)
       THEN LET pcmData == Int16Array(decodeBase64(r.data.s))
                url == ObjectUrl(Wav(pending[i].text, WavBytes(pcmData)))
            IN  /\ generatedEnglishAudioUrl' =
                       IF pending[i].language = "english"
                       THEN url ELSE generatedEnglishAudioUrl
                /\ generatedPersianAudioUrl' =
                       IF pending[i].language = "english"
                       THEN generatedPersianAudioUrl ELSE url
                /\ UNCHANGED error
       ELSE /\ error' = SpeechError(IF ~r.ok THEN r.thrown
                                   ELSE IF ~Truthy(r.data) THEN NoAudioData
                                   ELSE DecodeThrown(r.data.s))
            /\ UNCHANGED <<generatedEnglishAudioUrl, generatedPersianAudioUrl>>
    /\ isGeneratingAudio' = "false"
    /\ pending' = Remove(pending, i)
    /\ effects' = NoEffects
    /\ UNCHANGED <<status, file, audioUrl, transcriptData, chords, currentTime,
                   exportProgress, totalSlides, persianTranscript, isTranslating,
                   audioPos, up, ex>>

(***************************************************************************)
(* The specification.                                                      *)
(***************************************************************************)
Next ==
    \/ \E f \in Files, key \in BOOLEAN : handleFile(f, key)
    \/ \E ok \in BOOLEAN : transcribeRead(ok)
    \/ \E r \in TranscriptionResponses, key \in BOOLEAN : transcribeSettle(r, key)
    \/ \E ok \in BOOLEAN : chordsRead(ok)
    \/ \E r \in ChordResponses : chordsSettle(r)
    \/ resetState
    \/ \E time \in 0..MaxTime, elementRect \in ElementRects :
            timeUpdate(time, elementRect)
    \/ handleDownloadTranscript
    \/ handleExportToPowerPoint
    \/ \E ok \in BOOLEAN, key \in BOOLEAN : exportImport(ok, key)
    \/ \E r \in PromptResponses : exportPrompt(r)
    \/ \E r \in ImageResponses : exportImage(r)
    \/ \E ok \in BOOLEAN : exportRead(ok)
    \/ \E ok \in BOOLEAN : exportWrite(ok)
    \/ \E key \in BOOLEAN : handleTranslate(key)
    \/ \E i \in 1..MaxPending, r \in TranslateResponses : translateSettle(i, r)
    \/ \E language \in {"english", "persian"}, key \in BOOLEAN :
            handleGenerateAudio(language, key)
    \/ \E i \in 1..MaxPending, r \in SpeechResponses : speechSettle(i, r)

Spec == Init /\ [][Next]_vars

\* What the browser guarantees: a FileReader ends its read (loadend, with a
\* result or without one), a request to the service settles (with an answer
\* or a failure), the dynamic import and the writing of the deck end, and a
\* continuation that can run is run.  Nothing obliges the user to act.
Fairness ==
    /\ WF_vars(\E ok \in BOOLEAN : transcribeRead(ok))
    /\ WF_vars(\E r \in TranscriptionResponses, key \in BOOLEAN : transcribeSettle(r, key))
    /\ WF_vars(\E ok \in BOOLEAN : chordsRead(ok))
    /\ WF_vars(\E r \in ChordResponses : chordsSettle(r))
    /\ WF_vars(\E ok \in BOOLEAN, key \in BOOLEAN : exportImport(ok, key))
    /\ WF_vars(\E r \in PromptResponses : exportPrompt(r))
    /\ WF_vars(\E r \in ImageResponses : exportImage(r))
    /\ WF_vars(\E ok \in BOOLEAN : exportRead(ok))
    /\ WF_vars(\E ok \in BOOLEAN : exportWrite(ok))
    /\ WF_vars(\E i \in 1..MaxPending, r \in TranslateResponses : translateSettle(i, r))
    /\ WF_vars(\E i \in 1..MaxPending, r \in SpeechResponses : speechSettle(i, r))

FairSpec == Spec /\ Fairness

(***************************************************************************)
(* The highlight over word lists.  A session that has a transcript on      *)
(* screen: the service answered a transcript whose words are sorted by     *)
(* start time and do not overlap, chord detection found nothing, and the   *)
(* player moves.                                                           *)
(***************************************************************************)
MaxWords == 3
MaxStamp == 3

Stamps == 0..MaxStamp

\* Lists of <<start, end>> with start <= end, each word ending before the
\* next starts or as it starts.
SortedSpans ==
    {spans \in UNION {[1..n -> Stamps \X Stamps] : n \in 0..MaxWords} :
        /\ \A i \in 1..Len(spans) : spans[i][1] <= spans[i][2]
        /\ \A i \in 1..(Len(spans) - 1) : spans[i][2] <= spans[i + 1][1]}

WordList(spans) == [i \in 1..Len(spans) |-> Segment("la", spans[i][1], spans[i][2])]

InitHighlight ==
    /\ status = "done"
    /\ error = Null
    /\ file = AudioFile
    /\ audioUrl = ObjectUrl(AudioFile)
    /\ \E spans \in SortedSpans :
            transcriptData = Transcript("la", WordList(spans))
    /\ chords = Null
    /\ currentTime = 0
    /\ exportProgress = 0
    /\ totalSlides = 0
    /\ persianTranscript = Null
    /\ isTranslating = FALSE
    /\ isGeneratingAudio = "false"
    /\ generatedEnglishAudioUrl = Null
    /\ generatedPersianAudioUrl = Null
    /\ audioPos = 0
    /\ up = UpIdle
    /\ ex = ExIdle
    /\ pending = <<>>
    /\ effects = NoEffects

NextHighlight ==
    \/ \E time \in 0..(MaxStamp + 1), elementRect \in ElementRects :
            timeUpdate(time, elementRect)
    \/ resetState

SpecHighlight == InitHighlight /\ [][NextHighlight]_vars

\* The words of the transcript on screen, and the spans rendered highlighted.
Words == IF Truthy(transcriptData) THEN transcriptData.word_segments ELSE <<>>
Shown == Highlighted(transcriptData, currentTime)
Inside(i) == Words[i].start_time.n <= currentTime /\ currentTime < Words[i].end_time.n

\* C1: on a list of words sorted by start time that do not overlap, the
\* rendering highlights exactly the one word whose [start, end) holds the
\* current time and no word when no interval holds it; at an instant that
\* ends word i and starts word i+1 only word i+1 is highlighted; and the
\* scroll effect's findIndex names the same word (-1 for none).
C1_HighlightExactlyTheWordInside ==
    /\ \A i \in 1..Len(Words) : Inside(i) => Shown = {i - 1}
    /\ (\A i \in 1..Len(Words) : ~Inside(i)) => Shown = {}
    /\ \A i \in 1..(Len(Words) - 1) :
            (/\ Words[i].end_time.n = currentTime
             /\ Words[i + 1].start_time.n = currentTime
             /\ Inside(i + 1)) => Shown = {i}
    /\ Truthy(transcriptData) =>
            FindIndex(Words, currentTime) = IF Shown = {} THEN -1 ELSE Min(Shown)

\* The player moved to the instant that ends the first word and starts the
\* second: the second word alone is highlighted.
C1_Witness ==
    /\ Len(Words) = 3
    /\ currentTime = 2
    /\ Words[1].end_time.n = 2 /\ Words[1].start_time.n < 2
    /\ Words[2].start_time.n = 2 /\ Words[2].end_time.n = 3
    /\ Shown = {1}

(***************************************************************************)
(* Properties of the session (specification Spec).                         *)
(***************************************************************************)
Cleared ==
    /\ status = "idle" /\ error = Null /\ file = Null /\ audioUrl = Null
    /\ transcriptData = Null /\ chords = Null /\ currentTime = 0
    /\ exportProgress = 0 /\ totalSlides = 0 /\ persianTranscript = Null
    /\ isTranslating = FALSE /\ isGeneratingAudio = "false"
    /\ generatedEnglishAudioUrl = Null /\ generatedPersianAudioUrl = Null

\* C2: resetState leaves status idle, error, file, audioUrl, transcriptData,
\* chords, persianTranscript and both generated audio URLs null, currentTime,
\* exportProgress and totalSlides 0, isTranslating and isGeneratingAudio
\* false; right after it no word is highlighted at any time.
C2_ResetClearsEverything ==
    [][resetState =>
        /\ Cleared'
        /\ \A t \in 0..(MaxTime + 3) : Highlighted(transcriptData', t) = {}]_vars

\* The reset has just run on a session whose translation or speech request
\* is still in flight.
C2_Witness ==
    /\ effects.status = <<"idle">>
    /\ pending # <<>>
    /\ Cleared

ChordStep ==
    \/ \E ok \in BOOLEAN : chordsRead(ok)
    \/ \E r \in ChordResponses : chordsSettle(r)

\* C3: chord detection is advisory.  Once the transcription has succeeded
\* (a transcript is stored and detectChords has set status to
\* 'detecting_chords'; with the key missing it ends at once and status is
\* 'done' in the same step), status eventually
\* becomes 'done' whatever happens in chord detection, and no step of chord
\* detection sets error or sets status to 'error'.
C3_ChordDetectionNeverBlocks ==
    /\ (status = "detecting_chords" /\ HasSegments(transcriptData)) ~> (status = "done")
    /\ [][ChordStep => (error' = error /\ status' # "error")]_vars

\* The FileReader of detectChords failed: its promise is never resolved and
\* the spinner stays.
C3_Stuck == status = "detecting_chords" /\ up.pc = "hung"

\* error is `prefix` followed by the message of the Error thrown (for a
\* thrown value that is no Error, which has no message, by some text).
Reports(e, prefix, thrown) ==
    /\ e.t = "string" /\ StartsWith(e.s, prefix)
    /\ thrown.t = "error" => e.s = prefix \o thrown.message

HeldCells ==
    <<file, audioUrl, transcriptData, persianTranscript,
      generatedEnglishAudioUrl, generatedPersianAudioUrl>>

\* C4: when a transcription, translation or speech request fails, error is
\* the operation's prefix followed by the reason, and file, audioUrl,
\* transcriptData, persianTranscript and both generated audio URLs are what
\* they were before the failed operation was started: the failing step
\* changes none of them, starting a speech synthesis changes none of them,
\* and after the failure of the translation of this session (no reset since
\* its button was pressed) the translation that was on screen is still there.
C4_FailureDiscardsNothing ==
    [][/\ \A thrown \in Thrown :
            /\ (\E key \in BOOLEAN : transcribeSettle(Failure(thrown), key)) =>
                    /\ Reports(error', "Failed to transcribe the audio. ", thrown)
                    /\ UNCHANGED HeldCells
            /\ \A i \in 1..Len(pending) :
                    /\ translateSettle(i, Failure(thrown)) =>
                            /\ Reports(error', "Failed to translate. ", thrown)
                            /\ UNCHANGED HeldCells
                            /\ (isTranslating /\ i = Len(pending)
                                    /\ Truthy(pending[i].had)) =>
                                    persianTranscript' = pending[i].had
                    /\ speechSettle(i, Failure(thrown)) =>
                            /\ Reports(error', "Failed to generate audio. ", thrown)
                            /\ UNCHANGED HeldCells
       /\ (\E language \in {"english", "persian"}, key \in BOOLEAN :
                handleGenerateAudio(language, key)) => UNCHANGED HeldCells]_vars

\* A translation was made and spoken; a second translation has failed, and
\* the translated text is gone.
C4_TranslationLost ==
    /\ error = TranslateError(Error("Network error"))
    /\ persianTranscript = Null
    /\ generatedPersianAudioUrl # Null
    /\ MainView /\ HasSegments(transcriptData)

\* The expected shape of a transcription: an object with a transcript and a
\* list of word segments.
IsTranscript(v) ==
    v.t = "object" /\ "transcript" \in DOMAIN v /\ "word_segments" \in DOMAIN v
ExpectedShape(text) ==
    LET parsed == JsonParse(Trim(text))
    IN  parsed.ok /\ IsTranscript(parsed.value)

\* C5: a transcription response whose text is not of the expected shape -
\* text that is no JSON, or JSON of another shape (null, a number, a string,
\* an object without word_segments) - is a parse failure: the step that
\* receives it sets status to 'error' and error to the parse-failure message,
\* and stores nothing in transcriptData.
C5_WrongShapeIsParseFailure ==
    [][\A r \in TranscriptionResponses :
            (/\ r.ok /\ r.text.t = "string"
             /\ \E key \in BOOLEAN : transcribeSettle(r, key)
             /\ ~ExpectedShape(r.text.s)) =>
                /\ status' = "error"
                /\ error' = TranscribeError(ParseFailed)
                /\ transcriptData' = transcriptData]_vars

\* A JSON value that is no transcript was stored and the session went on to
\* 'done'.
C5_WrongShapeStored ==
    /\ status = "done"
    /\ Truthy(transcriptData) /\ ~IsTranscript(transcriptData)

\* The prompt request or the image request of a slide fails (a rejected
\* request, or an image answer without an image).
SlideFails ==
    \/ \E r \in Failures : exportPrompt(r)
    \/ \E r \in ImageResponses : (~r.ok \/ r.images = <<>>) /\ exportImage(r)

\* C6: during an export the failure of the prompt or of the image of one
\* slide does not abort the export: the step leaves status 'exporting' and
\* error null and the export goes on (to the next chunk, or to the audio and
\* the writing of the deck, which holds a slide for every chunk so far).
C6_SlideFailureDoesNotAbort ==
    [][SlideFails =>
        /\ status' = "exporting" /\ error' = Null
        /\ ex'.pc \in {"prompt", "image", "readAudio", "write"}
        /\ Len(ex'.slides) >= ex.index + 1]_vars

EndsWith(s, p) == Len(s) >= Len(p) /\ SubSeq(s, Len(s) - Len(p) + 1, Len(s)) = p
NamesMissingKey(e) == e.t = "string" /\ EndsWith(e.s, "API_KEY not found.")

\* The step in which an operation finds the API key absent.
KeyFoundMissing ==
    \/ handleFile(AudioFile, FALSE)
    \/ Truthy(transcriptData) /\ handleTranslate(FALSE)
    \/ \E language \in {"english", "persian"} :
            Truthy(TextToSpeak(language)) /\ handleGenerateAudio(language, FALSE)
    \/ exportImport(TRUE, FALSE)

\* C7: with the API key absent, transcription, export, translation and speech
\* synthesis fail before any request is sent and before any other
\* asynchronous step is started (none is in flight for the operation when it
\* finds the key missing, and the failing step starts none), and the error
\* names the missing key ('API_KEY not found.').
C7_MissingKeyFailsFirst ==
    [][KeyFoundMissing =>
        /\ NamesMissingKey(error')
        /\ effects'.requests = <<>> /\ effects'.started = <<>>
        /\ up.pc = "idle" /\ ex.pc = "idle"]_vars

InvalidFileType == Str("Invalid file type. Please upload an audio file.")

\* C8: handleFile on a file whose type does not start with 'audio/' sets
\* status to 'error' and error to the invalid-file-type message; it sets no
\* other status on the way ('reading', 'transcribing'), sends no request,
\* starts no read, and leaves file, audioUrl and transcriptData as they were.
C8_NonAudioFileRejected ==
    [][\A f \in Files :
            (SubSeq(f.type, 1, 6) # "audio/" /\ \E key \in BOOLEAN : handleFile(f, key)) =>
                /\ status' = "error" /\ error' = InvalidFileType
                /\ effects'.status = <<"error">>
                /\ effects'.requests = <<>> /\ effects'.started = <<>>
                /\ up' = UpIdle
                /\ UNCHANGED <<file, audioUrl, transcriptData>>]_vars

\* A text file has just been dropped and rejected.
C8_Witness ==
    /\ status = "error" /\ error = InvalidFileType
    /\ effects.status = <<"error">>
    /\ file = Null /\ audioUrl = Null /\ transcriptData = Null
    /\ up = UpIdle

\* C9: no failure leaves the session stuck.  When no upload and no export is
\* running (every operation that was started has finished, failed or not),
\* status is 'idle', 'done' or 'error', never a spinner status, and the
\* upload zone or the main view with its New File button is on screen.
C9_NeverStuck ==
    (up.pc = "idle" /\ ex.pc = "idle") =>
        /\ status \in {"idle", "done", "error"}
        /\ UploadView \/ (MainView /\ Mounted)

\* handleFile has returned and the spinner of the transcription stays.
C9_Stuck == up.pc = "idle" /\ ex.pc = "idle" /\ status = "transcribing"

\* The export is in its loop, or past it.
InLoop == ex.pc \in {"prompt", "image"}
PastLoop == ex.pc \in {"readAudio", "write", "hung"}
\* The number of chunks whose slide is complete.
Completed == IF InLoop THEN ex.index ELSE IF PastLoop THEN Len(ex.chunks) ELSE 0

SlidesInChunkOrder ==
    (InLoop \/ PastLoop) =>
        /\ status = "exporting"
        /\ totalSlides = Len(ex.chunks)
        /\ exportProgress = Completed
        /\ Len(ex.slides) = IF InLoop THEN Completed + 1 ELSE Completed
        /\ \A i \in 1..Completed :
                ex.slides[i].image /\ ex.slides[i].text = Str(Trim(ex.chunks[i]))

OneRequestAtATime ==
    (ex.pc # "idle" /\ ex'.pc # "idle") =>
        /\ exportProgress' \in {exportProgress, exportProgress + 1}
        /\ Len(effects'.requests) <= 1
        /\ \A k \in 0..Len(ex'.chunks) :
            /\ effects'.requests = <<Request("prompt", k)>> =>
                    /\ ex.pc \in {"import", "image"}
                    /\ exportProgress' = k /\ ex'.index = k /\ k < Len(ex'.chunks)
            /\ effects'.requests = <<Request("image", k)>> =>
                    /\ ex.pc = "prompt" /\ ex.index = k
                    /\ exportProgress' = k

\* C10: during an export the requests are issued one at a time in chunk
\* order (the prompt request of chunk k when k chunks are complete, its image
\* request when its prompt has been answered), the slides are in chunk order
\* with slide i holding the trimmed text of chunk i, and exportProgress is
\* the number of chunks completed, going up by one at a time.
C10_SequentialExport ==
    /\ []SlidesInChunkOrder
    /\ [][OneRequestAtATime]_vars

\* Two of three chunks are complete and the prompt of the third is asked.
C10_Witness ==
    /\ ex.pc = "prompt" /\ ex.index = 2 /\ Len(ex.chunks) = 3
    /\ exportProgress = 2 /\ totalSlides = 3
    /\ effects.requests = <<Request("prompt", 2)>>
    /\ ex.slides[2].text = Str(Repeat("b", 100))

\* C12: an empty transcript (empty text, no word segments) highlights no
\* word at any time and yields no chunk: its export creates no slide, asks
\* nothing of the service, reads no audio and goes straight to the writing
\* of a deck without slides, and neither that export nor a tick of the
\* player sets error or throws in the rendering.
C12_EmptyTranscript ==
    /\ [](transcriptData = EmptyTranscript =>
            /\ \A t \in 0..(MaxTime + 3) :
                    /\ Highlighted(transcriptData, t) = {}
                    /\ FindIndex(transcriptData.word_segments, t) = -1
            /\ Mounted)
    /\ []((ex.data = EmptyTranscript /\ ex.pc \notin {"idle", "import"}) =>
            /\ ex.pc = "write"
            /\ ex.chunks = <<>> /\ ex.slides = <<>> /\ totalSlides = 0)
    /\ [][/\ (ex.data = EmptyTranscript /\ exportImport(TRUE, TRUE)) =>
                /\ error' = error /\ status' = "exporting"
                /\ effects'.requests = <<>> /\ effects'.started = <<"writeFile">>
          /\ (ex.data = EmptyTranscript /\ exportWrite(TRUE)) =>
                /\ error' = error /\ status' = "done"
                /\ effects'.saved[1].slides = <<>>
          /\ (transcriptData = EmptyTranscript /\ \E time \in 0..MaxTime, elementRect \in ElementRects :
                                timeUpdate(time, elementRect)) =>
                /\ error' = error /\ status' = status /\ Mounted']_vars

\* The deck of an empty transcript has just been written, without a slide.
C12_Witness ==
    /\ transcriptData = EmptyTranscript /\ status = "done" /\ error = Null
    /\ effects.saved # <<>>
    /\ "slides" \in DOMAIN effects.saved[1]
    /\ effects.saved[1].slides = <<>>
    /\ currentTime = 1


\* C13: the transcript is immutable.  Once a transcription has stored a
\* transcript, no step changes transcriptData - no tick, download, export
\* step, translation or speech synthesis, failed or not - except to discard
\* it (null) on a reset or on a new file.
C13_TranscriptImmutable ==
    [][(IsTranscript(transcriptData) /\ transcriptData' # transcriptData) =>
            /\ transcriptData' = Null
            /\ resetState \/ \E f \in Files, key \in BOOLEAN : handleFile(f, key)]_vars

\* After ticks, a translation, a speech synthesis and an export, whose deck
\* has just been written, the transcript is the one the service answered.
C13_Witness ==
    /\ transcriptData = LongTranscript
    /\ currentTime = 1
    /\ Truthy(persianTranscript) /\ Truthy(generatedEnglishAudioUrl)
    /\ effects.saved # <<>> /\ "slides" \in DOMAIN effects.saved[1]
    /\ Len(effects.saved[1].slides) = 3


(***************************************************************************)
(* The deck and the download over transcripts and file names.  A session   *)
(* that has a transcript on screen: the file has one of three names, the   *)
(* transcript is made of up to MaxTextWords words of the lengths           *)
(* WordLengths, separated by a space or a line feed (or it is ten short    *)
(* lines), word i being spoken from i-1 to i; the user downloads and       *)
(* exports.                                                                *)
(***************************************************************************)
MaxTextWords == 2

WordLengths == {1, 74, 75, 151}
Separators == {" ", "\n"}
Letter(i) == SubSeq("abcdefgh", i, i)
TextWord(lengths, i) == Repeat(Letter(i), lengths[i])

RECURSIVE TextOf(_, _, _)
TextOf(lengths, separators, n) ==
    IF n = 0 THEN ""
    ELSE IF n = 1 THEN TextWord(lengths, 1)
    ELSE TextOf(lengths, separators, n - 1) \o separators[n - 1] \o TextWord(lengths, n)

TimedWords(lengths) ==
    [i \in 1..Len(lengths) |-> Segment(TextWord(lengths, i), i - 1, i)]

TenLines == "l0\nl1\nl2\nl3\nl4\nl5\nl6\nl7\nl8\nl9"
TenLinesTranscript ==
    Transcript(TenLines, [i \in 1..10 |-> Segment("l" \o Digit(i - 1), i - 1, i)])

DeckTranscripts ==
    {TenLinesTranscript} \cup
    UNION {{Transcript(TextOf(lengths, separators, n), TimedWords(lengths)) :
                lengths \in [1..n -> WordLengths],
                separators \in [1..(IF n = 0 THEN 0 ELSE n - 1) -> Separators]} :
           n \in 0..MaxTextWords}

DeckFiles ==
    {AudioFile, File("my.song.mp3", "audio/mpeg"), File("song", "audio/mpeg")}

InitDeck ==
    /\ status = "done"
    /\ error = Null
    /\ file \in DeckFiles
    /\ audioUrl = ObjectUrl(file)
    /\ transcriptData \in DeckTranscripts
    /\ chords = Null
    /\ currentTime = 0
    /\ exportProgress = 0
    /\ totalSlides = 0
    /\ persianTranscript = Null
    /\ isTranslating = FALSE
    /\ isGeneratingAudio = "false"
    /\ generatedEnglishAudioUrl = Null
    /\ generatedPersianAudioUrl = Null
    /\ audioPos = 0
    /\ up = UpIdle
    /\ ex = ExIdle
    /\ pending = <<>>
    /\ effects = NoEffects

NextDeck ==
    \/ handleDownloadTranscript
    \/ handleExportToPowerPoint
    \/ \E ok \in BOOLEAN, key \in BOOLEAN : exportImport(ok, key)
    \/ \E r \in PromptResponses : exportPrompt(r)
    \/ \E r \in ImageResponses : exportImage(r)
    \/ \E ok \in BOOLEAN : exportRead(ok)
    \/ \E ok \in BOOLEAN : exportWrite(ok)

SpecDeck == InitDeck /\ [][NextDeck]_vars

(***************************************************************************)
(* Properties of the deck and the download (specification SpecDeck).       *)
(***************************************************************************)
\* The export has cut its transcript into ex.chunks.
Chunked == ex.pc \in {"prompt", "image", "readAudio", "write", "hung"}
ChunkedText == ex.data.transcript

\* Where chunk i starts when every chunk starts where the one before ended.
RECURSIVE ChunkStart(_)
ChunkStart(i) == IF i = 1 THEN 1 ELSE ChunkStart(i - 1) + Len(ex.chunks[i - 1])
ChunkEnd(i) == ChunkStart(i) + Len(ex.chunks[i]) - 1

\* The first position from p on that holds no white space (a word starts),
\* and the first from p on that holds white space (a word has ended);
\* Len + 1 when there is none.
WordStart(text, p) ==
    Min({q \in p..(Len(text) + 1) : q = Len(text) + 1 \/ ~IsSpace(CharAt(text, q))})
WordEnd(text, p) ==
    Min({q \in p..(Len(text) + 1) : q = Len(text) + 1 \/ IsSpace(CharAt(text, q))})

\* C11: character-budget chunking is greedy.  Every chunk is the text of the
\* remaining transcript (it starts where the chunk before ended), it ends
\* with a white-space character or at the end of the transcript, its trimmed
\* text is at most 150 characters, it cannot be made longer (the text from
\* its start to the end of the next word is more than 150 characters), and
\* the chunks go on to the end of the transcript (the last one is emitted
\* whatever its length).
C11_ChunkingIsGreedy ==
    Chunked =>
        /\ \A i \in 1..Len(ex.chunks) :
            /\ SubSeq(ChunkedText, ChunkStart(i), ChunkEnd(i)) = ex.chunks[i]
            /\ \/ ChunkEnd(i) = Len(ChunkedText)
               \/ IsSpace(CharAt(ChunkedText, ChunkEnd(i)))
            /\ Len(Trim(ex.chunks[i])) <= 150
            /\ LET next == WordStart(ChunkedText, ChunkEnd(i) + 1)
               IN  next <= Len(ChunkedText) =>
                        WordEnd(ChunkedText, next) - ChunkStart(i) > 150
        /\ WordStart(ChunkedText, ChunkStart(Len(ex.chunks) + 1)) = Len(ChunkedText) + 1

\* Two short words on two lines were cut into two chunks.
C11_LineFeedCuts ==
    /\ Chunked /\ ChunkedText = "a\nb"
    /\ ex.chunks = <<"a\n", "b">>



\* The deck pres.writeFile has just written, if the last step wrote one.
DeckSaved == effects.saved # <<>> /\ "slides" \in DOMAIN effects.saved[1]
SavedSlides == effects.saved[1].slides

\* C14: when the export produces at least one slide, the audio file is
\* embedded on the first slide and on no other, and the deck is written
\* only after the audio has been embedded.
C14_AudioOnFirstSlideOnly ==
    /\ \A i \in 1..Len(ex.slides) : ex.slides[i].audio => i = 1
    /\ (ex.pc = "write" /\ ex.slides # <<>>) => ex.slides[1].audio
    /\ (\E k \in 1..Len(effects.started) : effects.started[k] = "writeFile") =>
            ex.pc = "write"
    /\ (DeckSaved /\ SavedSlides # <<>>) =>
            /\ SavedSlides[1].audio
            /\ \A i \in 2..Len(SavedSlides) : ~SavedSlides[i].audio

\* A deck of several slides has been written.
C14_Witness ==
    /\ DeckSaved /\ Len(SavedSlides) >= 2
    /\ SavedSlides[1].audio /\ ~SavedSlides[2].audio


\* The words of a chunk: the words of the transcript that start inside it,
\* counted in the order of word_segments.
IsWordStart(text, q) ==
    /\ ~IsSpace(CharAt(text, q))
    /\ q = 1 \/ IsSpace(CharAt(text, q - 1))
WordsBefore(text, p) == Cardinality({q \in 1..(p - 1) : IsWordStart(text, q)})
FirstWord(i) == WordsBefore(ChunkedText, ChunkStart(i)) + 1
LastWord(i) == WordsBefore(ChunkedText, ChunkEnd(i) + 1)
\* The time span of chunk i: from the start of its first word to the end of
\* its last word, 0 to 0 when it has no word.
TimeSpan(i) ==
    IF FirstWord(i) > LastWord(i)
    THEN [startTime |-> Num(0), endTime |-> Num(0)]
    ELSE [startTime |-> ex.data.word_segments[FirstWord(i)].start_time,
          endTime |-> ex.data.word_segments[LastWord(i)].end_time]

\* C15: every slide chunk has a time span, from the start time of its first
\* word to the end time of its last word, and the slide made from the chunk
\* carries that span as its speaker notes.
C15_SlidesCarryTimeSpan ==
    Chunked =>
        \A i \in 1..Len(ex.slides) :
            ex.slides[i].image => ex.slides[i].notes = TimeSpan(i)

\* A deck is ready to be written: its two slides have their picture and
\* text, their words are timed, and neither slide has notes.
C15_SlidesWithoutNotes ==
    /\ ex.pc = "write" /\ Len(ex.slides) = 2
    /\ TimeSpan(1) = [startTime |-> Num(0), endTime |-> Num(1)]
    /\ TimeSpan(2) = [startTime |-> Num(1), endTime |-> Num(2)]
    /\ \A i \in 1..2 : ex.slides[i].image /\ ex.slides[i].notes = Null


\* The lines of a text, as text.split('\n') gives them: line k lies between
\* the line feeds k - 1 and k.
GroupSize == 4
LineFeeds(text) == {q \in 1..Len(text) : CharAt(text, q) = "\n"}
LineCount(text) == Cardinality(LineFeeds(text)) + 1
LineFeed(text, k) ==
    CHOOSE q \in LineFeeds(text) :
        Cardinality({r \in LineFeeds(text) : r < q}) = k - 1
LineStart(text, k) == IF k = 1 THEN 1 ELSE LineFeed(text, k - 1) + 1
LineEnd(text, k) ==
    IF k = LineCount(text) THEN Len(text) ELSE LineFeed(text, k) - 1
\* Group i of the lines, g to a group: lines (i-1)g+1 to ig (or to the last),
\* joined by the line feeds between them.
LineGroup(text, g, i) ==
    SubSeq(text, LineStart(text, (i - 1) * g + 1),
                 LineEnd(text, Min({i * g, LineCount(text)})))

\* C16: the export groups whole lines, four to a slide: n lines give
\* ceil(n / 4) chunks, chunk i is lines 4i-3 to 4i in their order (the last
\* chunk the lines that are left: 10 lines give 4, 4 and 2), and no line is
\* split across two chunks.
C16_LinesGroupedInFours ==
    (Chunked /\ ChunkedText # "") =>
        /\ Len(ex.chunks) = (LineCount(ChunkedText) + GroupSize - 1) \div GroupSize
        /\ \A i \in 1..Len(ex.chunks) :
                Trim(ex.chunks[i]) = LineGroup(ChunkedText, GroupSize, i)

\* Ten lines were cut into ten chunks, a line each.
C16_TenLinesTenChunks ==
    /\ Chunked /\ ChunkedText = TenLines
    /\ Len(ex.chunks) = 10
    /\ \A i \in 1..10 : Trim(ex.chunks[i]) = LineGroup(TenLines, 1, i)


\* A file name with its extension removed: the text before its last dot, the
\* whole name when it has no dot.
Dots(name) == {q \in 1..Len(name) : CharAt(name, q) = "."}
WithoutExtension(name) ==
    IF Dots(name) = {} THEN name ELSE SubSeq(name, 1, Max(Dots(name)) - 1)

\* The text file the Download Transcript button has just saved, if the last
\* step saved one.
TranscriptSaved == effects.saved # <<>> /\ "content" \in DOMAIN effects.saved[1]

\* C17: Download Transcript saves a text file named '<stem>_transcript.txt',
\* the stem being the name of the uploaded file without its extension
\* (whether the name has several dots or none), and the content of the file
\* is exactly transcriptData.transcript.
C17_DownloadNameAndContent ==
    TranscriptSaved =>
        /\ effects.saved[1].name = WithoutExtension(file.name) \o "_transcript.txt"
        /\ effects.saved[1].content = transcriptData.transcript

\* The transcript of 'my.song.mp3' was saved as 'my_transcript.txt'.
C17_CutAtFirstDot ==
    /\ TranscriptSaved
    /\ file.name = "my.song.mp3"
    /\ effects.saved[1].name = "my_transcript.txt"
    /\ effects.saved[1].content = transcriptData.transcript


(***************************************************************************)
(* Speech synthesis over payloads of samples: a session with a transcript  *)
(* (and perhaps a translation) and the two Listen buttons.  The service    *)
(* answers 16-bit samples, low byte first, in base64.                      *)
(***************************************************************************)
MaxSamples == 2

SampleValues == {1, -32768}
PcmSamples == UNION {[1..n -> SampleValues] : n \in 0..MaxSamples}

\* The bytes of the samples as the service sends them.
PcmBytes(samples) ==
    [k \in 1..(2 * Len(samples)) |->
        LET u == samples[(k + 1) \div 2] % 65536
        IN  IF k % 2 = 1 THEN u % 256 ELSE u \div 256]

\* The base64 text of a sequence of bytes.
RECURSIVE Base64(_)
Base64(bytes) ==
    IF Len(bytes) = 0 THEN ""
    ELSE IF Len(bytes) = 1
    THEN Base64Char(bytes[1] \div 4) \o Base64Char((bytes[1] % 4) * 16) \o "=="
    ELSE IF Len(bytes) = 2
    THEN Base64Char(bytes[1] \div 4)
         \o Base64Char((bytes[1] % 4) * 16 + bytes[2] \div 16)
         \o Base64Char((bytes[2] % 16) * 4) \o "="
    ELSE Base64Char(bytes[1] \div 4)
         \o Base64Char((bytes[1] % 4) * 16 + bytes[2] \div 16)
         \o Base64Char((bytes[2] % 16) * 4 + bytes[3] \div 64)
         \o Base64Char(bytes[3] % 64)
         \o Base64(SubSeq(bytes, 4, Len(bytes)))

\* inlineData.data: the base64 text of the samples, as it is or with a line
\* feed after it; three bytes (a sample and a half); no base64 at all.
LineEnds == {"", "\n"}
WavPayloads ==
    {Base64(PcmBytes(samples)) \o end : samples \in PcmSamples, end \in LineEnds}
    \cup {"AQID", "A"}
WavResponses ==
    {[ok |-> TRUE, data |-> Str(payload)] : payload \in WavPayloads}
    \cup {[ok |-> TRUE, data |-> Undefined]}
    \cup Failures

WavTranscript == Transcript("a b", TimedWords(<<1, 1>>))

InitWav ==
    /\ status = "done"
    /\ error = Null
    /\ file = AudioFile
    /\ audioUrl = ObjectUrl(AudioFile)
    /\ transcriptData = WavTranscript
    /\ chords = Null
    /\ currentTime = 0
    /\ exportProgress = 0
    /\ totalSlides = 0
    /\ persianTranscript \in {Null, Str("salam donya")}
    /\ isTranslating = FALSE
    /\ isGeneratingAudio = "false"
    /\ generatedEnglishAudioUrl = Null
    /\ generatedPersianAudioUrl = Null
    /\ audioPos = 0
    /\ up = UpIdle
    /\ ex = ExIdle
    /\ pending = <<>>
    /\ effects = NoEffects

NextWav ==
    \/ \E language \in {"english", "persian"}, key \in BOOLEAN :
            handleGenerateAudio(language, key)
    \/ \E i \in 1..MaxPending, r \in WavResponses : speechSettle(i, r)

SpecWav == InitWav /\ [][NextWav]_vars

(***************************************************************************)
(* Properties of the audio container (specification SpecWav).              *)
(***************************************************************************)
\* The container the Listen button of a language plays.
Container(language) ==
    IF language = "english"
    THEN generatedEnglishAudioUrl.blob ELSE generatedPersianAudioUrl.blob
HasContainer(language) ==
    IF language = "english"
    THEN Truthy(generatedEnglishAudioUrl) ELSE Truthy(generatedPersianAudioUrl)

ReadUint16(bytes, offset) == bytes[offset + 1] + 256 * bytes[offset + 2]
ReadUint32(bytes, offset) ==
    bytes[offset + 1] + 256 * bytes[offset + 2]
    + 65536 * bytes[offset + 3] + 16777216 * bytes[offset + 4]

\* C19: the header of every container is self-consistent.  Read as
\* little-endian numbers, the RIFF size is 36 + 2N (the length less 8), the
\* fmt size 16, the format 1, the channels 1, the sample rate 24000, the
\* byte rate 48000, the block align 2, the bits per sample 16, and the data
\* size 2N (the length less 44).
C19_HeaderSelfConsistent ==
    \A language \in {"english", "persian"} :
        HasContainer(language) =>
            LET bytes == Container(language).bytes
            IN  /\ Len(bytes) >= 44 /\ (Len(bytes) - 44) % 2 = 0
                /\ ReadUint32(bytes, 4) = Len(bytes) - 8
                /\ SubSeq(bytes, 13, 16) = <<102, 109, 116, 32>>
                /\ ReadUint32(bytes, 16) = 16
                /\ ReadUint16(bytes, 20) = 1
                /\ ReadUint16(bytes, 22) = 1
                /\ ReadUint32(bytes, 24) = 24000
                /\ ReadUint32(bytes, 28) = 48000
                /\ ReadUint16(bytes, 32) = 2
                /\ ReadUint16(bytes, 34) = 16
                /\ SubSeq(bytes, 37, 40) = <<100, 97, 116, 97>>
                /\ ReadUint32(bytes, 40) = Len(bytes) - 44

\* Containers of no sample and of two: the sizes are 36 and 0, 40 and 4.
C19_Witness ==
    /\ HasContainer("english") /\ HasContainer("persian")
    /\ LET none == Container("english").bytes
           two == Container("persian").bytes
       IN  /\ Len(none) = 44
           /\ SubSeq(none, 5, 8) = <<36, 0, 0, 0>>
           /\ SubSeq(none, 41, 44) = <<0, 0, 0, 0>>
           /\ Len(two) = 48
           /\ SubSeq(two, 5, 8) = <<40, 0, 0, 0>>
           /\ SubSeq(two, 25, 32) = <<192, 93, 0, 0, 128, 187, 0, 0>>
           /\ SubSeq(two, 41, 44) = <<4, 0, 0, 0>>


(***************************************************************************)
(* Playback over segments with missing times: the session after a          *)
(* transcription whose answer left start_time or end_time out of some      *)
(* segments (JSON.parse gives objects without the property, which then     *)
(* reads undefined).                                                       *)
(***************************************************************************)
MaxPartialWords == 2
MaxPartialStamp == 2

PartialStamps == {Undefined} \cup {Num(n) : n \in 0..MaxPartialStamp}
PartialSegment(word, start, end) ==
    [word |-> word, start_time |-> start, end_time |-> end]
PartialWordLists ==
    UNION {[1..n -> {PartialSegment("la", start, end) :
                        start \in PartialStamps, end \in PartialStamps}] :
           n \in 0..MaxPartialWords}

InitPartial ==
    /\ status = "done"
    /\ error = Null
    /\ file = AudioFile
    /\ audioUrl = ObjectUrl(AudioFile)
    /\ \E segments \in PartialWordLists :
            transcriptData = Transcript("la", segments)
    /\ chords = Null
    /\ currentTime = 0
    /\ exportProgress = 0
    /\ totalSlides = 0
    /\ persianTranscript = Null
    /\ isTranslating = FALSE
    /\ isGeneratingAudio = "false"
    /\ generatedEnglishAudioUrl = Null
    /\ generatedPersianAudioUrl = Null
    /\ audioPos = 0
    /\ up = UpIdle
    /\ ex = ExIdle
    /\ pending = <<>>
    /\ effects = NoEffects

NextPartial ==
    \/ \E time \in 0..(MaxPartialStamp + 1), elementRect \in ElementRects :
            timeUpdate(time, elementRect)
    \/ resetState

SpecPartial == InitPartial /\ [][NextPartial]_vars

(***************************************************************************)
(* Properties of the highlight over missing times (SpecPartial).           *)
(***************************************************************************)
\* A time of a segment, 0 when it is missing.
OrZero(stamp) == IF stamp.t = "number" THEN stamp.n ELSE 0

\* C20: a missing start_time or end_time counts as 0.  A segment is
\* highlighted exactly when the time is at or after its start (0 when
\* missing) and before its end (0 when missing) - a segment with no start
\* and the end e at every time t with 0 <= t < e - and the lookup does not
\* fail: the component renders.
C20_MissingTimeIsZero ==
    HasSegments(transcriptData) =>
        /\ Mounted
        /\ \A i \in 1..Len(transcriptData.word_segments) :
            LET segment == transcriptData.word_segments[i]
            IN  (i - 1) \in Highlighted(transcriptData, currentTime)
                    <=> /\ currentTime >= OrZero(segment.start_time)
                        /\ currentTime < OrZero(segment.end_time)

\* A word with no start and the end 2: at time 1 nothing is highlighted,
\* the lookup finds no index, and the component renders.
C20_NoStartNeverHighlighted ==
    /\ HasSegments(transcriptData) /\ Len(transcriptData.word_segments) = 1
    /\ transcriptData.word_segments[1] = PartialSegment("la", Undefined, Num(2))
    /\ currentTime = 1
    /\ Highlighted(transcriptData, currentTime) = {}
    /\ FindIndex(transcriptData.word_segments, currentTime) = -1
    /\ Mounted


(***************************************************************************)
(* The chunking expression by itself, /.{1,budget}(\s|$)/g with the budget *)
(* as a parameter, over texts of a few words joined by single spaces.      *)
(***************************************************************************)
MaxBudgetWords == 4

BudgetWords == {"hello", "world", "foo", "bar"}
Budgets == {10, 11, ChunkBudget}

RECURSIVE JoinWords(_)
JoinWords(words) ==
    IF words = <<>> THEN ""
    ELSE IF Len(words) = 1 THEN words[1]
    ELSE words[1] \o " " \o JoinWords(Tail(words))

BudgetTexts ==
    {JoinWords(words) : words \in UNION {[1..n -> BudgetWords] : n \in 0..MaxBudgetWords}}

InitBudget ==
    /\ status = "done"
    /\ error = Null
    /\ file = AudioFile
    /\ audioUrl = ObjectUrl(AudioFile)
    /\ \E text \in BudgetTexts : transcriptData = Transcript(text, <<>>)
    /\ chords = Null
    /\ currentTime = 0
    /\ exportProgress = 0
    /\ totalSlides = 0
    /\ persianTranscript = Null
    /\ isTranslating = FALSE
    /\ isGeneratingAudio = "false"
    /\ generatedEnglishAudioUrl = Null
    /\ generatedPersianAudioUrl = Null
    /\ audioPos = 0
    /\ up = UpIdle
    /\ ex = ExIdle
    /\ pending = <<>>
    /\ effects = NoEffects

\* chunks = transcriptData.transcript.match(/.{1,budget}(\s|$)/g) || []
matchChunks(budget) ==
    /\ ex' = [ex EXCEPT !.data = transcriptData,
                        !.chunks = MatchAll(transcriptData.transcript, 1, budget)]
    /\ UNCHANGED <<cells, audioPos, up, pending, effects>>

NextBudget == \E budget \in Budgets : matchChunks(budget)

SpecBudget == InitBudget /\ [][NextBudget]_vars

(***************************************************************************)
(* Properties of the chunking expression (specification SpecBudget).       *)
(***************************************************************************)
\* chunk.trim() of every chunk: the texts the slides show.
Trimmed(chunks) == [i \in 1..Len(chunks) |-> Trim(chunks[i])]
HelloWorldFooBar == transcriptData.transcript = "hello world foo bar"

Scrolled ==
    \E k \in 1..Len(effects.started) : effects.started[k] = "scrollIntoView"
\* The box of the word lies within the vertical bounds of the container.
FullyInside(elementRect) ==
    0 <= elementRect.top /\ elementRect.bottom <= ContainerLines

\* C22: the scroll is silent while the active word is the same.  A tick
\* after an earlier tick (the time is past 0) that leaves the index of the
\* active word as the earlier tick found it triggers no scroll, wherever the
\* box of the word is.
C22_SilentWhileActiveUnchanged ==
    [][\A time \in 0..(MaxStamp + 1), elementRect \in ElementRects :
        (/\ timeUpdate(time, elementRect)
         /\ currentTime > 0
         /\ FindIndex(Words, time) = FindIndex(Words, currentTime)) =>
            ~Scrolled']_vars

\* C23: the scroll fires only when needed.  A tick triggers a scroll only
\* if a transcript is loaded, some word is highlighted at the new time, and
\* the box of that word is not fully inside the container.
C23_ScrollOnlyWhenNeeded ==
    [][\A time \in 0..MaxTime, elementRect \in ElementRects :
        (Scrolled' /\ currentTime' = time /\ timeUpdate(time, elementRect)) =>
            /\ IsTranscript(transcriptData)
            /\ Highlighted(transcriptData, time) # {}
            /\ FindIndex(transcriptData.word_segments, time)
                    \in Highlighted(transcriptData, time)
            /\ ~FullyInside(elementRect)]_vars

\* The second word became active out of view and was scrolled to.
C23_Witness ==
    /\ Scrolled
    /\ transcriptData = LongTranscript /\ currentTime = 1
    /\ Highlighted(transcriptData, currentTime) = {1}


(***************************************************************************)
(* The lookup over lists in any order (specification SpecPartial).         *)
(***************************************************************************)
\* Every word of the list has both its times.
AllTimed(segments) ==
    \A i \in 1..Len(segments) :
        segments[i].start_time.t = "number" /\ segments[i].end_time.t = "number"
\* The indices (from 0) of the words whose [start_time, end_time) holds t.
Containing(segments, t) ==
    {i \in 0..(Len(segments) - 1) :
        segments[i + 1].start_time.n <= t /\ t < segments[i + 1].end_time.n}

\* C24: the lookup tolerates any list of timed segments, sorted or not,
\* overlapping or not.  At any time it gives the lowest index whose
\* [start_time, end_time) holds the time, -1 when no interval holds it; it
\* does not fail (the component renders); and the word it names is one of
\* the words rendered as highlighted.
C24_LookupOnAnyList ==
    (HasSegments(transcriptData) /\ AllTimed(transcriptData.word_segments)) =>
        LET segments == transcriptData.word_segments
            found == FindIndex(segments, currentTime)
            hits == Containing(segments, currentTime)
        IN  /\ Mounted
            /\ hits = {} => found = -1
            /\ hits # {} => found \in hits /\ \A i \in hits : found <= i
            /\ found # -1 => found \in Highlighted(transcriptData, currentTime)
            /\ Highlighted(transcriptData, currentTime) = hits

\* Two overlapping words out of order, 1 to 2 and then 0 to 2, at time 1:
\* both are highlighted and the lookup names the first.
C24_Witness ==
    /\ HasSegments(transcriptData)
    /\ transcriptData.word_segments =
            <<PartialSegment("la", Num(1), Num(2)), PartialSegment("la", Num(0), Num(2))>>
    /\ currentTime = 1
    /\ FindIndex(transcriptData.word_segments, currentTime) = 0
    /\ Highlighted(transcriptData, currentTime) = {0, 1}


(***************************************************************************)
(* The export against the other handlers (specification Spec).             *)
(***************************************************************************)
\* A button of the main view or a drop on the upload view starts a handler.
HandlerStarts ==
    \/ resetState
    \/ handleDownloadTranscript
    \/ handleExportToPowerPoint
    \/ \E f \in Files, key \in BOOLEAN : handleFile(f, key)
    \/ \E key \in BOOLEAN : handleTranslate(key)
    \/ \E language \in {"english", "persian"}, key \in BOOLEAN :
            handleGenerateAudio(language, key)

\* C25: an export cannot be interrupted or overlapped.  An export is in
\* flight exactly while status is 'exporting'; while it is, no handler can be
\* started (no New File, upload, translation, speech synthesis or second
\* export), and status leaves 'exporting' only as the export ends, for
\* 'done' or 'error'.
C25_ExportNotInterrupted ==
    /\ [](ex.pc # "idle" <=> status = "exporting")
    /\ [](status = "exporting" => SpinnerView)
    /\ [][status = "exporting" =>
            /\ ~HandlerStarts
            /\ status' # "exporting" =>
                    /\ status' \in {"done", "error"}
                    /\ ex'.pc = "idle"
                    /\ ex.pc # "hung"]_vars

\* A translation was requested, then the export: the export is at its second
\* slide while the translation is still in flight.
C25_Witness ==
    /\ status = "exporting" /\ ex.pc = "image" /\ ex.index = 1
    /\ pending # <<>> /\ pending[1].op = "translate"


\* Between a reset and the next main view: the upload view, or the spinner
\* of an upload.  No translation or speech synthesis can be requested here.
SinceReset ==
    UploadView \/ status \in {"idle", "reading", "transcribing", "detecting_chords"}

\* C26: a response to a translation or speech request sent before New File
\* was pressed is not applied after the reset.  From the reset until the
\* main view is back (where a translation or speech synthesis can be
\* requested again), also while the new file is read and transcribed,
\* persianTranscript and both generated audio URLs are null.
C26_NoStaleResponseAfterReset ==
    SinceReset =>
        /\ persianTranscript = Null
        /\ generatedEnglishAudioUrl = Null
        /\ generatedPersianAudioUrl = Null

\* The translation of the file before is in the state while the new file is
\* being transcribed.
C26_StaleTranslation ==
    /\ status = "transcribing"
    /\ persianTranscript = Str("salam donya")
    /\ pending = <<>>


\* The requests of a kind that are in flight.
InFlight(op) == {i \in 1..Len(pending) : pending[i].op = op}

\* C27: translation and speech synthesis are mutually exclusive.  At most
\* one translation or speech request is in flight at any time, isTranslating
\* is true exactly while a translation request is in flight, and
\* isGeneratingAudio is set exactly while a speech request is in flight.
C27_OneRequestAndFlagsExact ==
    /\ Len(pending) <= 1
    /\ isTranslating <=> InFlight("translate") # {}
    /\ isGeneratingAudio # "false" <=> InFlight("speech") # {}

\* After New File and a new upload the main view is back with the buttons
\* enabled, while the translation requested before the reset is in flight.
C27_EnabledWhileInFlight ==
    /\ status = "done" /\ MainView /\ HasSegments(transcriptData)
    /\ InFlight("translate") # {}
    /\ ~Busy


\* C28: the upload pipeline ends.  Once handleFile has accepted a file and
\* status is 'reading', 'transcribing' or 'detecting_chords', and with every
\* request to the service answered or failed (and leaving aside a file that
\* cannot be read), status eventually is 'done' or 'error', whatever the
\* service answers.
C28_UploadEnds ==
    (status \in {"reading", "transcribing", "detecting_chords"})
        ~> (status \in {"done", "error"} \/ up.pc = "hung")

\* The service answered the text 'null': handleFile has returned, and the
\* spinner of the transcription stays with nothing in flight.
C28_AnsweredAndStuck ==
    /\ status = "transcribing" /\ up.pc = "idle"
    /\ transcriptData = Null /\ error = Null
    /\ pending = <<>> /\ ex.pc = "idle"


\* C29: in every reachable state a status of 'error' comes with an error
\* message: status = 'error' implies error is not null, also after a
\* translation or a text-to-speech request was started from the error view.
C29_ErrorStatusHasMessage == status = "error" => error # Null

\* The error view of a failed export with its message cleared by a request
\* that was started from it.
C29_ErrorWithoutMessage ==
    /\ status = "error" /\ error = Null
    /\ Truthy(file) /\ Truthy(transcriptData)
    /\ isTranslating \/ isGeneratingAudio # FALSE


\* The characters of s that are no white space, in their order.
RECURSIVE NonWhitespace(_)
NonWhitespace(s) ==
    IF Len(s) <= 1 THEN (IF IsSpace(s) THEN "" ELSE s)
    ELSE LET half == Len(s) \div 2
         IN  NonWhitespace(SubSeq(s, 1, half))
                \o NonWhitespace(SubSeq(s, half + 1, Len(s)))

\* The chunks one after the other.
RECURSIVE ChunksInOrder(_)
ChunksInOrder(chunks) ==
    IF chunks = <<>> THEN ""
    ELSE chunks[1] \o ChunksInOrder(Tail(chunks))

\* C30: slide chunking loses no text.  The chunks of an export, taken in
\* order, hold every character of the transcript that is no white space
\* exactly once and in the original order, also when the transcript has a
\* run of more than 150 characters without white space.
C30_ChunksLoseNoText ==
    Chunked =>
        NonWhitespace(ChunksInOrder(ex.chunks)) = NonWhitespace(ChunkedText)

\* A word of 151 letters was cut into one chunk of 150 letters.
C30_LongWordLosesItsHead ==
    /\ Chunked /\ ChunkedText = Repeat("a", 151)
    /\ ex.chunks = <<Repeat("a", 150)>>



(***************************************************************************)
(* Translating again (specification SpecRetranslate).  A transcript is on  *)
(* screen; the user translates, listens, and translates again, and the     *)
(* service may word its second translation differently.                    *)
(***************************************************************************)
RetranslateResponses ==
    {Response(Str("salam donya")), Response(Str("dorood jahan"))} \cup Failures

InitRetranslate ==
    /\ status = "done"
    /\ error = Null
    /\ file = AudioFile
    /\ audioUrl = ObjectUrl(AudioFile)
    /\ transcriptData = WavTranscript
    /\ chords = Null
    /\ currentTime = 0
    /\ exportProgress = 0
    /\ totalSlides = 0
    /\ persianTranscript = Null
    /\ isTranslating = FALSE
    /\ isGeneratingAudio = "false"
    /\ generatedEnglishAudioUrl = Null
    /\ generatedPersianAudioUrl = Null
    /\ audioPos = 0
    /\ up = UpIdle
    /\ ex = ExIdle
    /\ pending = <<>>
    /\ effects = NoEffects

NextRetranslate ==
    \/ \E key \in BOOLEAN : handleTranslate(key)
    \/ \E i \in 1..MaxPending, r \in RetranslateResponses : translateSettle(i, r)
    \/ \E language \in {"english", "persian"}, key \in BOOLEAN :
            handleGenerateAudio(language, key)
    \/ \E i \in 1..MaxPending, r \in SpeechResponses : speechSettle(i, r)

SpecRetranslate == InitRetranslate /\ [][NextRetranslate]_vars

\* The audio behind url was synthesized from the text on screen.
SynthesizedFrom(url, text) ==
    Truthy(url) => text.t = "string" /\ url.blob.text = text.s

\* C31: generated audio matches the text shown.  Whenever
\* generatedEnglishAudioUrl is not null it was synthesized from the current
\* transcriptData.transcript, and whenever generatedPersianAudioUrl is not
\* null it was synthesized from the current persianTranscript, after any
\* sequence of translations, text-to-speech requests and their answers.
C31_AudioMatchesText ==
    /\ SynthesizedFrom(generatedEnglishAudioUrl,
                       IF Truthy(transcriptData)
                       THEN TranscriptOf(transcriptData) ELSE Null)
    /\ SynthesizedFrom(generatedPersianAudioUrl, persianTranscript)

\* The second translation is on screen beside the audio of the first, and
\* nothing is in flight.
C31_AudioOfOldTranslation ==
    /\ persianTranscript = Str("dorood jahan")
    /\ Truthy(generatedPersianAudioUrl)
    /\ generatedPersianAudioUrl.blob.text = "salam donya"
    /\ pending = <<>> /\ ~isTranslating /\ isGeneratingAudio = "false"



(***************************************************************************)
(* The counters of the export (specification Spec).                        *)
(***************************************************************************)
\* C32: the export counters are well-formed.  In every reachable state
\* 0 <= exportProgress <= totalSlides, and when status is not 'exporting'
\* both counters are 0, after a successful export and after a failed one.
C32_CountersWellFormed ==
    /\ 0 <= exportProgress /\ exportProgress <= totalSlides
    /\ status # "exporting" => exportProgress = 0 /\ totalSlides = 0

\* An export has just failed: the error view is shown with both counters
\* back at 0.
C32_Witness ==
    /\ status = "error"
    /\ error = Str("Failed to generate PowerPoint. Please try again.")
    /\ effects.status = <<"error">>
    /\ ex.pc = "idle"
    /\ exportProgress = 0 /\ totalSlides = 0


\* C33: in every reachable state a status of 'done' comes with a file, its
\* audio URL and a transcript (none of them null), and file is null exactly
\* when audioUrl is null.
C33_DoneHasFileAndTranscript ==
    /\ status = "done" =>
            file # Null /\ audioUrl # Null /\ transcriptData # Null
    /\ file = Null <=> audioUrl = Null

\* An export has ended well: 'done' was set by handleExportToPowerPoint.
C33_Witness ==
    /\ status = "done" /\ DeckSaved
    /\ file = AudioFile /\ audioUrl = ObjectUrl(AudioFile)
    /\ transcriptData = LongTranscript


\* A press of a button that reads the transcript, and of the Persian TTS.
TranscriptButton ==
    \/ handleDownloadTranscript
    \/ handleExportToPowerPoint
    \/ \E key \in BOOLEAN : handleTranslate(key)
    \/ \E key \in BOOLEAN : handleGenerateAudio("english", key)
PersianSpeechButton == \E key \in BOOLEAN : handleGenerateAudio("persian", key)

\* C34: without a transcript the buttons do nothing.  While transcriptData
\* is null, Download Transcript, Export to PowerPoint, Translate and the
\* English TTS issue no request and leave the whole state (status, error,
\* flags, results, what is in flight) unchanged; likewise the Persian TTS
\* while persianTranscript is null.
C34_NoTranscriptNoEffect ==
    [][(\/ transcriptData = Null /\ TranscriptButton
        \/ persianTranscript = Null /\ PersianSpeechButton) =>
            /\ effects' = NoEffects
            /\ UNCHANGED <<cells, audioPos, up, ex, pending>>]_vars

\* The view after a failed transcription, with its buttons, after a press
\* that did nothing: the failure message is still shown.
C34_Witness ==
    /\ Mounted /\ MainView /\ ~Busy
    /\ transcriptData = Null /\ Truthy(file)
    /\ status = "error" /\ error = TranscribeError(ParseFailed)
    /\ effects = NoEffects /\ pending = <<>>



(***************************************************************************)
(* The highlight and the player across an export (specification Spec).     *)
(***************************************************************************)
\* C35: the highlight follows the player across an export.  The audio
\* element is removed while status is 'exporting' and created anew at
\* position 0 when the main view returns; whenever the main view is shown
\* (a tick is one step here, so none is pending) currentTime is the position
\* of the audio element on screen, so that the highlighted word is the one
\* at the player's position.
C35_HighlightFollowsPlayer ==
    /\ status = "exporting" => audioPos = 0
    /\ Mounted /\ MainView =>
            /\ currentTime = audioPos
            /\ Highlighted(transcriptData, currentTime)
                    = Highlighted(transcriptData, audioPos)

\* An export has ended: the new player is at 0, on the first word, and the
\* second word is highlighted.
C35_HighlightAheadOfPlayer ==
    /\ status = "done" /\ effects.status = <<"done">> /\ DeckSaved
    /\ transcriptData = LongTranscript
    /\ audioPos = 0 /\ currentTime = 1
    /\ Highlighted(transcriptData, currentTime) = {1}
    /\ Highlighted(transcriptData, audioPos) = {0}

=============================================================================
